---- MODULE Spec2Model ----
(***************************************************************************)
(* Modbus RTU master (src/src/index.ts): request queue, expectation,       *)
(* timeout sweep and stream reassembly of one ModBus instance.             *)
(*                                                                         *)
(* Bytes are integers 0..255, buffers are sequences of bytes.  Offsets in  *)
(* the operators below are the zero-based offsets of the source.           *)
(* Durations and clock readings are counted in eighths of a millisecond,   *)
(* so that the default timeout length * 150000 / 9600 ms is an integer.    *)
(* The clock itself is not stored: every deadline is kept as the distance  *)
(* expires - Date.now(), which is all that the sweep compares.             *)
(***************************************************************************)
EXTENDS Integers, Sequences, FiniteSets, TLC

VARIABLES
    scenario,            \* what the callers invoke and the transport delivers
    timeoutOption,       \* options.timeout as given to the constructor
    invoked,             \* the operations invoked so far with their buffers, in order
    promise,             \* promise[k]: state and value of request k's promise
    settleCalls,         \* settleCalls[k]: calls of request k's resolve / reject
    dispatched,          \* requests whose queue callback has run
    written,             \* what write() was handed, in order
    currentExpectation,  \* ModBus.currentExpectation
    readingBuffer,       \* ModBus.readingBuffer
    expectationTimeout,  \* the module's timeout table, in insertion order
                         \* (browser build: the timers armed with setTimeout)
    writingQueue,        \* browser build: ModBus.writingQueue
    intervalStarted,     \* expectationCleanUpIterval is set
    sweepIn,             \* time until the interval's next tick
    elapsed,             \* time since the latest dispatch, stopped at settlement
    uncaught,            \* an exception escaped a timer callback or read()
    staleBytes,          \* bytes of readingBuffer read before the latest dispatch
    last                 \* what the latest step did

vars == <<scenario, timeoutOption, invoked, promise, settleCalls, dispatched, written,
          currentExpectation, readingBuffer, expectationTimeout,
          writingQueue, intervalStarted, sweepIn, elapsed, uncaught, staleBytes, last>>

-----------------------------------------------------------------------------
\* Bounds of the model

\* operations invoked in one run of the queue scenario
QueueRequests == 3

\* bytes the transport lets pile up in the reassembly buffer, queue scenario
QueueBuffer == 8

\* operations invoked in one run of the reassembly scenario
StreamRequests == 2

\* bytes the transport lets pile up in the reassembly buffer, reassembly scenario
StreamBuffer == 8

\* operations invoked in one run of the browser scenario
BrowserRequests == 2

\* bytes the transport lets pile up in the reassembly buffer, browser scenario
BrowserBuffer == 14

\* operations invoked in one run of the saturation scenario
SaturationRequests == 13

\* the most coils and the most registers read at once in the length scenario
ExpectCoils == 17
ExpectRegisters == 3

\* operations invoked in one run of the loop scenario
LoopRequests == 1

\* bytes the transport lets pile up in the reassembly buffer, loop scenario
LoopBuffer == 15

\* operations invoked in one run of the multi-frame scenario
ResyncRequests == 1

\* bytes the transport lets pile up in the reassembly buffer, multi-frame scenario
ResyncBuffer == 16

\* clock steps between two ticks of the sweep interval
TicksPerSweep == 2

-----------------------------------------------------------------------------
\* Integer helpers

Min(a, b) == IF a < b THEN a ELSE b

Max(a, b) == IF a > b THEN a ELSE b

\* n milliseconds in the model's unit
Ms(n) == 8 * n

RECURSIVE BitXor(_, _)
BitXor(a, b) ==
    IF a = 0 THEN b
    ELSE IF b = 0 THEN a
    ELSE (((a % 2) + (b % 2)) % 2) + 2 * BitXor(a \div 2, b \div 2)

\* view.getUint8(offset)
getUint8(buffer, offset) == buffer[offset + 1]

\* view.getUint16(offset, littleEndian); the caller checks InRange first
getUint16(buffer, offset, littleEndian) ==
    IF littleEndian
    THEN buffer[offset + 1] + 256 * buffer[offset + 2]
    ELSE 256 * buffer[offset + 1] + buffer[offset + 2]

\* a DataView read of n bytes at offset stays inside the buffer
InRange(buffer, offset, n) == offset >= 0 /\ offset + n <= Len(buffer)

\* buffer.slice(begin)
sliceFrom(buffer, begin) ==
    IF begin >= Len(buffer) THEN <<>> ELSE SubSeq(buffer, begin + 1, Len(buffer))

\* buffer.slice(0, end)
sliceTo(buffer, end) == SubSeq(buffer, 1, Min(end, Len(buffer)))

-----------------------------------------------------------------------------
\* crc16

\* c ^ w for a single bit w
toggleBit(c, w) == IF ((c \div w) % 2) = 1 THEN c - w ELSE c + w

\* c ^ 0x8005: another polynomial, with bits 15, 2 and 0
xorOtherPolynomial(c) == toggleBit(toggleBit(toggleBit(c, 32768), 4), 1)

\* c ^ 0xa001: the polynomial has bits 15, 13 and 0
xorPolynomial(c) == toggleBit(toggleBit(toggleBit(c, 32768), 8192), 1)

\* one turn of the inner loop: odd = crc & 1; crc >>= 1; if (odd) crc ^= 0xa001
crcShift(crc) ==
    IF (crc % 2) = 1 THEN xorPolynomial(crc \div 2) ELSE crc \div 2

\* the inner loop, j turns left (crc is known before the next turn starts)
RECURSIVE crcBits(_, _)
crcBits(crc, j) ==
    IF crc >= 0 /\ j > 0 THEN crcBits(crcShift(crc), j - 1) ELSE crc

\* the outer loop from byte i on (crc is known before the next byte starts)
RECURSIVE crcBytes(_, _, _)
crcBytes(crc, bytes, i) ==
    IF crc >= 0 /\ i <= Len(bytes)
    THEN crcBytes(crcBits(BitXor(crc, bytes[i]), 8), bytes, i + 1)
    ELSE crc

crc16(buffer) == crcBytes(65535, buffer, 1)

\* view.setUint16(codeLength, crc16(buf.slice(0, -2)), true)
withCrc(body) == body \o <<(crc16(body) % 256), (crc16(body) \div 256)>>

-----------------------------------------------------------------------------
\* Operations, their request buffers and their expectations

\* setUint16 with the two bytes the other way round
be16Swapped(value) == <<(value % 256), ((value % 65536) \div 256)>>

\* the two bytes of view.setUint16(offset, value, false)
be16(value) == <<((value % 65536) \div 256), (value % 256)>>

readStatusBuffer(address, dataAddress, length, code) ==
    withCrc(<<(address % 256), code>> \o be16(dataAddress) \o be16(length))

readRegistersBuffer(address, dataAddress, length, code) ==
    withCrc(<<(address % 256), code>> \o be16(dataAddress) \o be16(length))

\* writeCoilBuffer that writes 1 for a coil switched on
writeCoilBufferOne(address, dataAddress, state) ==
    withCrc(<<(address % 256), 5>> \o be16(dataAddress)
            \o be16(IF state THEN 1 ELSE 0))

writeCoilBuffer(address, dataAddress, state) ==
    withCrc(<<(address % 256), 5>> \o be16(dataAddress)
            \o be16(IF state THEN 65280 ELSE 0))

writeRegisterBuffer(address, dataAddress, value) ==
    withCrc(<<(address % 256), 6>> \o be16(dataAddress) \o be16(value))

\* setBit that counts the bits of a byte from the most significant one
setBitFromTop(buffer, offset, bit, value) ==
    LET byteOffset == offset + (bit \div 8)
        bitMask == 2 ^ (7 - (bit % 8))
        byte == getUint8(buffer, byteOffset)
        isSet == ((byte \div bitMask) % 2) = 1
    IN  [buffer EXCEPT ![byteOffset + 1] =
            IF value THEN (IF isSet THEN byte ELSE byte + bitMask)
            ELSE (IF isSet THEN byte - bitMask ELSE byte)]

\* DataView.prototype.setBit(offset, bit, value)
setBit(buffer, offset, bit, value) ==
    LET byteOffset == offset + (bit \div 8)
        bitMask == 2 ^ (bit % 8)
        byte == getUint8(buffer, byteOffset)
        isSet == ((byte \div bitMask) % 2) = 1
    IN  [buffer EXCEPT ![byteOffset + 1] =
            IF value THEN (IF isSet THEN byte ELSE byte + bitMask)
            ELSE (IF isSet THEN byte - bitMask ELSE byte)]

\* the loop of writeCoilsBuffer over the states from index i on
RECURSIVE setCoilBits(_, _, _)
setCoilBits(buffer, states, i) ==
    IF i >= Len(states) THEN buffer
    ELSE setCoilBits(IF states[i + 1] THEN setBit(buffer, 7, i, TRUE) ELSE buffer,
                     states, i + 1)

\* Math.ceil(length / 8)
ceilDiv8(length) == (length + 7) \div 8

writeCoilsBuffer(address, dataAddress, states) ==
    LET dataBytes == ceilDiv8(Len(states))
        cleared == <<(address % 256), 15>> \o be16(dataAddress) \o be16(Len(states))
                   \o <<(dataBytes % 256)>> \o [i \in 1..dataBytes |-> 0]
    IN  withCrc(setCoilBits(cleared, states, 0))

\* the loop of writeRegistersBuffer with setUint16(7 + i, ...)
RECURSIVE registerBytesPacked(_, _)
registerBytesPacked(values, i) ==
    IF i >= Len(values) THEN <<>>
    ELSE IF i + 1 = Len(values) THEN be16(values[i + 1]) \o [j \in 1..i |-> 0]
    ELSE <<(values[i + 1] % 65536) \div 256>> \o registerBytesPacked(values, i + 1)

\* the loop of writeRegistersBuffer over the values from index i on
RECURSIVE registerBytes(_, _)
registerBytes(values, i) ==
    IF i >= Len(values) THEN <<>>
    ELSE be16(values[i + 1]) \o registerBytes(values, i + 1)

writeRegistersBuffer(address, dataAddress, values) ==
    withCrc(<<(address % 256), 16>> \o be16(dataAddress) \o be16(Len(values))
            \o <<((Len(values) * 2) % 256)>> \o registerBytes(values, 0))

\* the operations a caller invokes in this model: arg is the count, state
\* (1 for true) or value, list the states (1 for true) or values of a
\* multiple write
readCoilStatus(address, dataAddress, length) ==
    [op |-> "readCoilStatus", address |-> address, dataAddress |-> dataAddress,
     arg |-> length, list |-> <<>>]

readInputStatus(address, dataAddress, length) ==
    [op |-> "readInputStatus", address |-> address, dataAddress |-> dataAddress,
     arg |-> length, list |-> <<>>]

readHoldingRegisters(address, dataAddress, length) ==
    [op |-> "readHoldingRegisters", address |-> address,
     dataAddress |-> dataAddress, arg |-> length, list |-> <<>>]

readInputRegisters(address, dataAddress, length) ==
    [op |-> "readInputRegisters", address |-> address,
     dataAddress |-> dataAddress, arg |-> length, list |-> <<>>]

writeCoil(address, dataAddress, state) ==
    [op |-> "writeCoil", address |-> address, dataAddress |-> dataAddress,
     arg |-> IF state THEN 1 ELSE 0, list |-> <<>>]

writeRegister(address, dataAddress, value) ==
    [op |-> "writeRegister", address |-> address, dataAddress |-> dataAddress,
     arg |-> value, list |-> <<>>]

writeCoils(address, dataAddress, states) ==
    [op |-> "writeCoils", address |-> address, dataAddress |-> dataAddress,
     arg |-> Len(states), list |-> [i \in 1..Len(states) |-> IF states[i] THEN 1 ELSE 0]]

writeRegisters(address, dataAddress, values) ==
    [op |-> "writeRegisters", address |-> address, dataAddress |-> dataAddress,
     arg |-> Len(values), list |-> values]

\* the states argument of a writeCoils operation
statesOf(o) == [i \in 1..Len(o.list) |-> o.list[i] = 1]

\* a unit handle that passes the data address where the bus operations take
\* the unit address
unitCallSwapped(handle, name, dataAddress, arg, list) ==
    [op |-> name, address |-> dataAddress, dataAddress |-> handle.address,
     arg |-> arg, list |-> list]

\* ModBusUnit(bus, address): the handle closes over the unit address
ModBusUnit(address) == [address |-> address]

\* a method of the handle, called with the arguments of the operation name
unitCall(handle, name, dataAddress, arg, list) ==
    CASE name = "readCoilStatus" -> readCoilStatus(handle.address, dataAddress, arg)
      [] name = "readInputStatus" -> readInputStatus(handle.address, dataAddress, arg)
      [] name = "readHoldingRegisters" ->
            readHoldingRegisters(handle.address, dataAddress, arg)
      [] name = "readInputRegisters" ->
            readInputRegisters(handle.address, dataAddress, arg)
      [] name = "writeCoil" -> writeCoil(handle.address, dataAddress, arg = 1)
      [] name = "writeRegister" -> writeRegister(handle.address, dataAddress, arg)
      [] name = "writeCoils" ->
            writeCoils(handle.address, dataAddress, [i \in 1..Len(list) |-> list[i] = 1])
      [] name = "writeRegisters" -> writeRegisters(handle.address, dataAddress, list)

\* the function code an operation puts in its request
RequestCode(o) ==
    CASE o.op = "readCoilStatus" -> 1
      [] o.op = "readInputStatus" -> 2
      [] o.op = "readHoldingRegisters" -> 3
      [] o.op = "readInputRegisters" -> 4
      [] o.op = "writeCoil" -> 5
      [] o.op = "writeRegister" -> 6
      [] o.op = "writeCoils" -> 15
      [] o.op = "writeRegisters" -> 16

\* the buffer an operation hands to writeBufferWithExpectation
RequestBuffer(o) ==
    CASE o.op = "readCoilStatus" ->
            readStatusBuffer(o.address, o.dataAddress, o.arg, 1)
      [] o.op = "readInputStatus" ->
            readStatusBuffer(o.address, o.dataAddress, o.arg, 2)
      [] o.op = "readHoldingRegisters" ->
            readRegistersBuffer(o.address, o.dataAddress, o.arg, 3)
      [] o.op = "readInputRegisters" ->
            readRegistersBuffer(o.address, o.dataAddress, o.arg, 4)
      [] o.op = "writeCoil" ->
            writeCoilBuffer(o.address, o.dataAddress, o.arg = 1)
      [] o.op = "writeRegister" ->
            writeRegisterBuffer(o.address, o.dataAddress, o.arg)
      [] o.op = "writeCoils" ->
            writeCoilsBuffer(o.address, o.dataAddress, statesOf(o))
      [] o.op = "writeRegisters" ->
            writeRegistersBuffer(o.address, o.dataAddress, o.list)

\* an expectation whose coil byte count is n / 8 + 1, one byte too many
\* for every multiple of 8
RequestExpectationRoundingUp(o) ==
    IF o.op \in {"readCoilStatus", "readInputStatus"}
    THEN [address |-> o.address, code |-> RequestCode(o),
          length |-> 3 + ((o.arg \div 8) + 1) + 2]
    ELSE IF o.op \in {"readHoldingRegisters", "readInputRegisters"}
    THEN [address |-> o.address, code |-> RequestCode(o), length |-> 3 + 2 * o.arg + 2]
    ELSE [address |-> o.address, code |-> RequestCode(o), length |-> 8]

\* the expectation an operation hands to writeBufferWithExpectation
RequestExpectation(o) ==
    CASE o.op = "readCoilStatus" ->
            [address |-> o.address, code |-> 1,
             length |-> 3 + (((o.arg - 1) \div 8) + 1) + 2]
      [] o.op = "readInputStatus" ->
            [address |-> o.address, code |-> 2,
             length |-> 3 + (((o.arg - 1) \div 8) + 1) + 2]
      [] o.op = "readHoldingRegisters" ->
            [address |-> o.address, code |-> 3, length |-> 3 + 2 * o.arg + 2]
      [] o.op = "readInputRegisters" ->
            [address |-> o.address, code |-> 4, length |-> 3 + 2 * o.arg + 2]
      [] o.op = "writeCoil" ->
            [address |-> o.address, code |-> 5, length |-> 8]
      [] o.op = "writeRegister" ->
            [address |-> o.address, code |-> 6, length |-> 8]
      [] o.op = "writeCoils" ->
            [address |-> o.address, code |-> 15, length |-> 8]
      [] o.op = "writeRegisters" ->
            [address |-> o.address, code |-> 16, length |-> 8]

-----------------------------------------------------------------------------
\* The frames the transport delivers

\* the response to readCoilStatus(1, 0, 16) of spec/modbus.spec.js
coilsResponse == withCrc(<<1, 1, 2, 3, 0>>)

\* the echo of writeCoil(1, 1, true)
coilEcho == writeCoilBuffer(1, 1, TRUE)

\* frames that differ from coilsResponse in one field of the expectation
otherAddress == withCrc(<<2, 1, 2, 3, 0>>)

otherCode == withCrc(<<1, 2, 2, 3, 0>>)

otherLength == withCrc(<<1, 1, 1, 3>>)

\* coilsResponse with a wrong trailer
badCrc == <<1, 1, 2, 3, 0, 185, 13>>

\* a register response whose byte count is odd
oddRegisters == withCrc(<<1, 3, 1, 7>>)

Frames ==
    {coilsResponse, coilEcho, otherAddress, otherCode, otherLength, badCrc,
     oddRegisters}

\* the responses of unit 1 to reads of 16 coils or inputs, of 2 holding
\* registers and of 1 input register
ReadResponses ==
    {withCrc(<<1, code, 2, low, high>>) :
        code \in {1, 2}, low \in {0, 3, 165, 255}, high \in {0, 3, 165, 255}}
    \cup {withCrc(<<1, 3, 4>> \o be16(first) \o be16(second)) :
             first \in {0, 258, 65535}, second \in {0, 258, 65535}}
    \cup {withCrc(<<1, 4, 2>> \o be16(value)) : value \in {0, 258, 65535}}

-----------------------------------------------------------------------------
\* Frames and their decoding

NoFrame == [crc |-> 0, address |-> 0, code |-> 0, length |-> 0, data |-> <<>>]

\* a frame length that leaves the CRC trailer out of the count
parseIncomingFrameWithoutTrailer(buffer) ==
    LET address == getUint8(buffer, 0)
        code == getUint8(buffer, 1)
        length == IF code >= 1 /\ code <= 4 THEN getUint8(buffer, 2) + 3 ELSE 6
    IN  IF Len(buffer) < length
        THEN [found |-> FALSE, frame |-> NoFrame]
        ELSE [found |-> TRUE,
              frame |-> [crc |-> getUint16(buffer, length - 2, TRUE),
                         address |-> address,
                         code |-> code,
                         length |-> length,
                         data |-> sliceTo(buffer, length - 2)]]

\* a frame length that takes a function code with bit 0x80 for the 5 bytes
\* of an exception response
parseIncomingFrameWithExceptions(buffer) ==
    LET address == getUint8(buffer, 0)
        code == getUint8(buffer, 1)
        length == IF code >= 1 /\ code <= 4 THEN getUint8(buffer, 2) + 5
                  ELSE IF code >= 128 THEN 5 ELSE 8
    IN  IF Len(buffer) < length
        THEN [found |-> FALSE, frame |-> NoFrame]
        ELSE [found |-> TRUE,
              frame |-> [crc |-> getUint16(buffer, length - 2, TRUE),
                         address |-> address,
                         code |-> code,
                         length |-> length,
                         data |-> sliceTo(buffer, length - 2)]]

\* parseIncomingFrame; tryParse has checked that 5 bytes are there
parseIncomingFrame(buffer) ==
    LET address == getUint8(buffer, 0)
        code == getUint8(buffer, 1)
        length == IF code >= 1 /\ code <= 4 THEN getUint8(buffer, 2) + 5 ELSE 8
    IN  IF Len(buffer) < length
        THEN [found |-> FALSE, frame |-> NoFrame]
        ELSE [found |-> TRUE,
              frame |-> [crc |-> getUint16(buffer, length - 2, TRUE),
                         address |-> address,
                         code |-> code,
                         length |-> length,
                         data |-> sliceTo(buffer, length - 2)]]

\* the eight states of one payload byte, most significant bit first
byteStatesFromTop(reg) == [j \in 1..8 |-> ((reg \div (2 ^ (8 - j))) % 2) = 1]

\* the eight states of one payload byte, least significant bit first
byteStates(reg) == [j \in 1..8 |-> ((reg \div (2 ^ (j - 1))) % 2) = 1]

RECURSIVE coilStates(_, _, _)
\* a loop that leaves the last payload byte out
coilStatesWithoutLastByte(data, i, length) ==
    IF i >= length - 1 THEN <<>>
    ELSE byteStates(getUint8(data, i + 3)) \o coilStates(data, i + 1, length)

coilStates(data, i, length) ==
    IF i >= length THEN <<>>
    ELSE byteStates(getUint8(data, i + 3)) \o coilStates(data, i + 1, length)

\* parseCoils
parseCoils(frame) ==
    [threw |-> FALSE,
     result |-> [states |-> coilStates(frame.data, 0, getUint8(frame.data, 2))]]

\* the loop of parseInputRegisters: FALSE when a getUint16 leaves the view
RECURSIVE registersInRange(_, _, _)
registersInRange(data, i, length) ==
    IF i >= length THEN TRUE
    ELSE InRange(data, i + 3, 2) /\ registersInRange(data, i + 2, length)

RECURSIVE registerValues(_, _, _)
registerValues(data, i, length) ==
    IF i >= length THEN <<>>
    ELSE <<getUint16(data, i + 3, FALSE)>> \o registerValues(data, i + 2, length)

\* parseInputRegisters; a read past the end of frame.data throws a RangeError
parseInputRegisters(frame) ==
    LET length == getUint8(frame.data, 2)
    IN  IF registersInRange(frame.data, 0, length)
        THEN [threw |-> FALSE,
              result |-> [data |-> registerValues(frame.data, 0, length)]]
        ELSE [threw |-> TRUE, result |-> [null |-> TRUE]]

\* parseSingleCoil
parseSingleCoil(frame) ==
    [threw |-> FALSE,
     result |-> [address |-> getUint16(frame.data, 2, FALSE),
                 state |-> getUint16(frame.data, 4, FALSE) = 65280]]

\* parseSingleRegister
parseSingleRegister(frame) ==
    [threw |-> FALSE,
     result |-> [address |-> getUint16(frame.data, 2, FALSE),
                 value |-> getUint16(frame.data, 4, FALSE)]]

\* parseMultipleRegisters
parseMultipleRegisters(frame) ==
    [threw |-> FALSE,
     result |-> [address |-> getUint16(frame.data, 2, FALSE),
                 length |-> getUint16(frame.data, 4, FALSE)]]

\* the result tryParse computes for an incoming frame whose CRC is right
parseResult(frame) ==
    IF frame.code = 1 \/ frame.code = 2 THEN parseCoils(frame)
    ELSE IF frame.code = 3 \/ frame.code = 4 THEN parseInputRegisters(frame)
    ELSE IF frame.code = 5 THEN parseSingleCoil(frame)
    ELSE IF frame.code = 6 THEN parseSingleRegister(frame)
    ELSE IF frame.code = 15 \/ frame.code = 16 THEN parseMultipleRegisters(frame)
    ELSE [threw |-> FALSE, result |-> [null |-> TRUE]]

\* crc16 of the data of every frame the transport delivers, computed once
crcOfFrames ==
    [data \in {sliceTo(f, Len(f) - 2) : f \in Frames \cup ReadResponses} |-> crc16(data)]

\* crc16(frame.data), looked up where it has been computed already
crcOfData(data) ==
    IF data \in DOMAIN crcOfFrames THEN crcOfFrames[data] ELSE crc16(data)

\* the CRC check of tryParse
crcMatches(frame) == frame.crc = crcOfData(frame.data)

\* tryParse(buffer) with incoming = true: error names the exception thrown
tryParse(buffer) ==
    IF Len(buffer) < 5
    THEN [error |-> "TooShortError", frame |-> NoFrame, result |-> [null |-> TRUE]]
    ELSE LET p == parseIncomingFrame(buffer)
         IN  IF ~p.found
             THEN [error |-> "FrameError", frame |-> NoFrame,
                   result |-> [null |-> TRUE]]
             ELSE IF ~crcMatches(p.frame)
             THEN [error |-> "CRCError", frame |-> p.frame,
                   result |-> [null |-> TRUE]]
             ELSE LET r == parseResult(p.frame)
                  IN  IF r.threw
                      THEN [error |-> "RangeError", frame |-> p.frame,
                            result |-> [null |-> TRUE]]
                      ELSE [error |-> "none", frame |-> p.frame,
                            result |-> r.result]

\* parseOutgoingFrame: the frame at the front of a buffer of 5 bytes or more
parseOutgoingFrame(buffer) ==
    LET address == getUint8(buffer, 0)
        code == getUint8(buffer, 1)
    IN  IF Len(buffer) < 8
        THEN [found |-> FALSE, threw |-> FALSE, frame |-> NoFrame]
        ELSE LET length == IF code >= 1 /\ code <= 6 THEN 2 + 2 + 2 + 2
                           ELSE IF code = 15 \/ code = 16
                           THEN 2 + 2 + 2 + 2 + 2 + getUint8(buffer, 5)
                           ELSE 0
             IN  IF Len(buffer) < length
                 THEN [found |-> FALSE, threw |-> FALSE, frame |-> NoFrame]
                 ELSE IF ~InRange(buffer, length - 2, 2)
                 THEN [found |-> FALSE, threw |-> TRUE, frame |-> NoFrame]
                 ELSE [found |-> TRUE, threw |-> FALSE,
                       frame |-> [crc |-> getUint16(buffer, length - 2, TRUE),
                                  address |-> address,
                                  code |-> code,
                                  length |-> length,
                                  data |-> sliceTo(buffer, length - 2)]]

\* the loop of parseOutgoingResult for code 15, from byte i on
RECURSIVE outgoingStates(_, _, _)
outgoingStates(data, i, dataLength) ==
    IF i >= dataLength THEN <<>>
    ELSE byteStates(getUint8(data, i + 6)) \o outgoingStates(data, i + 1, dataLength)

\* the loop of parseOutgoingResult for code 16, from offset i on
RECURSIVE outgoingData(_, _, _)
outgoingData(data, i, dataLength) ==
    IF i >= dataLength THEN <<>>
    ELSE <<getUint16(data, i + 3, FALSE)>> \o outgoingData(data, i + 2, dataLength)

\* parseOutgoingResult
parseOutgoingResult(frame) ==
    LET data == frame.data
        dataLength == getUint16(data, 4, FALSE)
    IN  IF frame.code >= 1 /\ frame.code <= 4
        THEN [threw |-> FALSE,
              result |-> [address |-> getUint16(data, 2, FALSE),
                          length |-> getUint16(data, 4, FALSE)]]
        ELSE IF frame.code = 5
        THEN [threw |-> FALSE,
              result |-> [address |-> getUint16(data, 2, FALSE),
                          states |-> <<getUint16(data, 4, FALSE) = 65280>>]]
        ELSE IF frame.code = 6
        THEN [threw |-> FALSE,
              result |-> [address |-> getUint16(data, 2, FALSE),
                          data |-> <<getUint16(data, 4, FALSE)>>]]
        ELSE IF frame.code = 15
        THEN IF \E i \in 0..(dataLength - 1) : ~InRange(data, i + 6, 1)
             THEN [threw |-> TRUE, result |-> [null |-> TRUE]]
             ELSE [threw |-> FALSE,
                   result |-> [address |-> getUint16(data, 2, FALSE),
                               states |-> outgoingStates(data, 0, dataLength)]]
        ELSE IF frame.code = 16
        THEN IF \E i \in 0..(dataLength - 1) : (i % 2) = 0 /\ ~InRange(data, i + 3, 2)
             THEN [threw |-> TRUE, result |-> [null |-> TRUE]]
             ELSE [threw |-> FALSE,
                   result |-> [address |-> getUint16(data, 2, FALSE),
                               data |-> outgoingData(data, 0, dataLength)]]
        ELSE [threw |-> FALSE, result |-> [null |-> TRUE]]

\* tryParse(buffer, false)
tryParseOutgoing(buffer) ==
    IF Len(buffer) < 5
    THEN [error |-> "TooShortError", frame |-> NoFrame, result |-> [null |-> TRUE]]
    ELSE LET p == parseOutgoingFrame(buffer)
         IN  IF p.threw
             THEN [error |-> "RangeError", frame |-> NoFrame,
                   result |-> [null |-> TRUE]]
             ELSE IF ~p.found
             THEN [error |-> "FrameError", frame |-> NoFrame,
                   result |-> [null |-> TRUE]]
             ELSE IF p.frame.crc # crc16(p.frame.data)
             THEN [error |-> "CRCError", frame |-> p.frame,
                   result |-> [null |-> TRUE]]
             ELSE LET r == parseOutgoingResult(p.frame)
                  IN  IF r.threw
                      THEN [error |-> "RangeError", frame |-> p.frame,
                            result |-> [null |-> TRUE]]
                      ELSE [error |-> "none", frame |-> p.frame,
                            result |-> r.result]

-----------------------------------------------------------------------------
\* Promises, the expectation and the timeout table

\* currentExpectation === undefined
Undefined == [req |-> 0, address |-> 0, code |-> 0, length |-> 0, timeout |-> 0]

Pending == [state |-> "pending", value |-> [null |-> TRUE]]

hexEncodeArray ==
    <<"0", "1", "2", "3", "4", "5", "6", "7",
      "8", "9", "A", "B", "C", "D", "E", "F">>

\* toHex(value) of an ArrayBuffer: two digits per byte, no separator
toHex(buffer) ==
    [i \in 1..(2 * Len(buffer)) |->
        IF (i % 2) = 1
        THEN hexEncodeArray[(buffer[(i + 1) \div 2] \div 16) + 1]
        ELSE hexEncodeArray[(buffer[i \div 2] % 16) + 1]]

\* new Error(error)
Error(name, hex) == [error |-> name, hex |-> hex]

\* a call of request k's resolve or reject: only the first one settles
settle(bus, k, state, value) ==
    [bus EXCEPT
        !.promise[k] = IF @.state = "pending"
                       THEN [state |-> state, value |-> value] ELSE @,
        !.settleCalls[k] = @ + 1]

\* delete expectationTimeout[timeoutId]
deleteTimeout(table, timeoutId) ==
    SelectSeq(table, LAMBDA e : e.timeoutId # timeoutId)

\* resolveExpectation that forgets to clear the expectation and its deadline
resolveExpectationKeeping(bus, result) ==
    settle(bus, bus.currentExpectation.req, "fulfilled", result)

\* resolveExpectation that leaves the deadline in the timeout table
resolveExpectationLeavingDeadline(bus, result) ==
    settle([bus EXCEPT !.currentExpectation = Undefined],
           bus.currentExpectation.req, "fulfilled", result)

\* resolveExpectation(result); read calls it only when isExpecting held
resolveExpectation(bus, result) ==
    LET cur == bus.currentExpectation
    IN  settle([bus EXCEPT !.currentExpectation = Undefined,
                           !.expectationTimeout = deleteTimeout(@, cur.timeout)],
               cur.req, "fulfilled", result)

\* rejectExpectation that leaves the deadline in the timeout table
rejectExpectationLeavingDeadline(bus, error) ==
    LET cur == bus.currentExpectation
    IN  IF cur = Undefined
        THEN [threw |-> TRUE, bus |-> bus]
        ELSE [threw |-> FALSE,
              bus |-> settle([bus EXCEPT !.currentExpectation = Undefined],
                             cur.req, "rejected", error)]

\* rejectExpectation(error): destructuring undefined throws a TypeError
rejectExpectation(bus, error) ==
    LET cur == bus.currentExpectation
    IN  IF cur = Undefined
        THEN [threw |-> TRUE, bus |-> bus]
        ELSE [threw |-> FALSE,
              bus |-> settle([bus EXCEPT
                                !.currentExpectation = Undefined,
                                !.expectationTimeout = deleteTimeout(@, cur.timeout)],
                             cur.req, "rejected", error)]

\* a matcher that looks at the unit address only
isExpectingUnit(bus, frame) ==
    LET cur == bus.currentExpectation
    IN  IF cur = Undefined THEN FALSE
        ELSE frame.address = cur.address

\* isExpecting(frame)
isExpecting(bus, frame) ==
    LET cur == bus.currentExpectation
    IN  IF cur = Undefined THEN FALSE
        ELSE IF frame.address # cur.address THEN FALSE
        ELSE IF frame.length # cur.length THEN FALSE
        ELSE IF frame.code # cur.code THEN FALSE
        ELSE TRUE

-----------------------------------------------------------------------------
\* read(chunk)

\* what one turn of the loop did with the frame at the front of the buffer
Event(bus, frame, outcome) ==
    [frame |-> frame, req |-> bus.currentExpectation.req, outcome |-> outcome]

\* a read() that starts from the chunk alone
concatDroppingCarry(buffer, chunk) == chunk

\* the buffer read() starts from
concat(buffer, chunk) == buffer \o chunk

RECURSIVE readLoop(_, _, _)

\* a loop that gives up at a checksum fault, the faulty frame left in place
readLoopStoppingAtFault(bus, buffer, events) ==
    LET p == tryParse(buffer)
    IN  IF p.error = "none"
        THEN IF isExpecting(bus, p.frame)
             THEN readLoop(resolveExpectation(bus, p.result),
                           sliceFrom(buffer, p.frame.length),
                           Append(events, Event(bus, p.frame, "resolve")))
             ELSE LET r == rejectExpectation(bus, Error("UNEXPECTED_RESPONSE", <<>>))
                  IN  IF r.threw
                      THEN [bus |-> bus, buffer |-> buffer, threw |-> FALSE,
                            events |-> Append(events, Event(bus, p.frame, "TypeError"))]
                      ELSE readLoop(r.bus,
                                    sliceFrom(buffer, p.frame.length),
                                    Append(events, Event(bus, p.frame, "reject")))
        ELSE [bus |-> bus, buffer |-> buffer, threw |-> FALSE,
              events |-> IF p.error = "RangeError" \/ p.error = "CRCError"
                         THEN Append(events, Event(bus, p.frame, p.error))
                         ELSE events]

\* a loop whose catch handles the parse errors only and lets any other
\* exception leave read()
readLoopRethrowing(bus, buffer, events) ==
    LET p == tryParse(buffer)
    IN  IF p.error = "none"
        THEN IF isExpecting(bus, p.frame)
             THEN readLoop(resolveExpectation(bus, p.result),
                           sliceFrom(buffer, p.frame.length),
                           Append(events, Event(bus, p.frame, "resolve")))
             ELSE LET r == rejectExpectation(bus, Error("UNEXPECTED_RESPONSE", <<>>))
                  IN  IF r.threw
                      THEN [bus |-> bus, buffer |-> buffer, threw |-> TRUE,
                            events |-> Append(events, Event(bus, p.frame, "TypeError"))]
                      ELSE readLoop(r.bus,
                                    sliceFrom(buffer, p.frame.length),
                                    Append(events, Event(bus, p.frame, "reject")))
        ELSE IF p.error = "CRCError"
        THEN readLoop(bus, sliceFrom(buffer, p.frame.length),
                      Append(events, Event(bus, p.frame, "CRCError")))
        ELSE [bus |-> bus, buffer |-> buffer, threw |-> p.error = "RangeError",
              events |-> IF p.error = "RangeError"
                         THEN Append(events, Event(bus, p.frame, "RangeError"))
                         ELSE events]

\* the for (;;) loop of read()
readLoop(bus, buffer, events) ==
    LET p == tryParse(buffer)
    IN  IF p.error = "none"
        THEN IF isExpecting(bus, p.frame)
             THEN readLoop(resolveExpectation(bus, p.result),
                           sliceFrom(buffer, p.frame.length),
                           Append(events, Event(bus, p.frame, "resolve")))
             ELSE LET r == rejectExpectation(bus, Error("UNEXPECTED_RESPONSE", <<>>))
                  IN  IF r.threw
                      THEN [bus |-> bus, buffer |-> buffer, threw |-> FALSE,
                            events |-> Append(events, Event(bus, p.frame, "TypeError"))]
                      ELSE readLoop(r.bus,
                                    sliceFrom(buffer, p.frame.length),
                                    Append(events, Event(bus, p.frame, "reject")))
        ELSE IF p.error = "CRCError"
        THEN readLoop(bus, sliceFrom(buffer, p.frame.length),
                      Append(events, Event(bus, p.frame, "CRCError")))
        ELSE [bus |-> bus, buffer |-> buffer, threw |-> FALSE,
              events |-> IF p.error = "RangeError"
                         THEN Append(events, Event(bus, p.frame, "RangeError"))
                         ELSE events]

\* read(chunk) on a bus whose readingBuffer is buffer
read(bus, buffer, chunk) == readLoop(bus, concat(buffer, chunk), <<>>)

-----------------------------------------------------------------------------
\* Timeouts

\* this.timeout(expectation) with a default that has no floor
timeoutWithoutFloor(option, expectation) ==
    IF option.kind = "function" THEN Ms(option.value * expectation.length)
    ELSE IF option.kind = "number" THEN Ms(option.value)
    ELSE expectation.length * ((150000 * 8) \div 9600)

\* this.timeout(expectation), as the constructor set it up; a configured
\* function is one that allows option.value ms for each expected byte, and
\* 150000 / 9600 ms are a whole number of eighths of a ms
timeout(option, expectation) ==
    IF option.kind = "function" THEN Ms(option.value * expectation.length)
    ELSE IF option.kind = "number" THEN Ms(option.value)
    ELSE Max(Ms(250), expectation.length * ((150000 * 8) \div 9600))

\* the period of the clean-up interval
SweepPeriod == Ms(250)

\* a deadline counted from the latest tick of the interval, not from the call
addExpectationTimeoutFromTick(table, timeoutId, callback, duration) ==
    Append(table, [timeoutId |-> timeoutId,
                   expires |-> IF intervalStarted
                               THEN duration - (SweepPeriod - sweepIn)
                               ELSE duration,
                   callback |-> callback])

\* addExpectationTimeout: the new entry of the table
addExpectationTimeout(table, timeoutId, callback, duration) ==
    Append(table, [timeoutId |-> timeoutId, expires |-> duration,
                   callback |-> callback])

\* now > expires
isExpiredStrictly(entry) == entry.expires < 0

\* now >= expires
isExpired(entry) == entry.expires <= 0

\* the entry of the table under a key, if it is still there
hasTimeout(table, timeoutId) == \E i \in 1..Len(table) : table[i].timeoutId = timeoutId

getTimeout(table, timeoutId) ==
    table[CHOOSE i \in 1..Len(table) : table[i].timeoutId = timeoutId]

\* the interval callback: Object.keys(expectationTimeout).forEach(...)
RECURSIVE sweepKeys(_, _, _)
sweepKeys(bus, keys, events) ==
    IF keys = <<>>
    THEN [bus |-> bus, threw |-> FALSE, events |-> events]
    ELSE IF ~hasTimeout(bus.expectationTimeout, Head(keys))
    THEN [bus |-> bus, threw |-> TRUE, events |-> events]
    ELSE LET entry == getTimeout(bus.expectationTimeout, Head(keys))
         IN  IF isExpired(entry)
             THEN LET cleared == [bus EXCEPT !.expectationTimeout =
                                      deleteTimeout(@, entry.timeoutId)]
                      r == rejectExpectation(
                               cleared,
                               Error("EXPECT_TIMEOUT",
                                     toHex(invoked[entry.callback].buffer)))
                  IN  IF r.threw
                      THEN [bus |-> cleared, threw |-> TRUE, events |-> events]
                      ELSE sweepKeys(r.bus, Tail(keys),
                                     Append(events, Event(cleared, NoFrame, "timeout")))
             ELSE sweepKeys(bus, Tail(keys), events)

sweep(bus) ==
    sweepKeys(bus, [i \in 1..Len(bus.expectationTimeout) |->
                        bus.expectationTimeout[i].timeoutId], <<>>)

-----------------------------------------------------------------------------
\* Inputs: the operations callers invoke and the chunks the transport delivers

Operations == {readCoilStatus(1, 0, 16), writeCoil(1, 1, TRUE)}

\* whole frames, and a frame cut in two
StreamChunks ==
    Frames \cup {sliceTo(coilsResponse, 3), sliceFrom(coilsResponse, 3)}

\* the answers of the queue scenario: right, foreign, faulty or undecodable
QueueChunks == {coilsResponse, coilEcho, badCrc, oddRegisters}

\* many callers, a device that answers (rightly, wrongly or not at all)
QueueScenario ==
    [operations |-> Operations, chunks |-> QueueChunks,
     maxRequests |-> QueueRequests, maxBuffer |-> QueueBuffer, echo |-> FALSE]

\* few callers, a transport that delivers any of the chunks at any time
StreamScenario ==
    [operations |-> Operations, chunks |-> StreamChunks,
     maxRequests |-> StreamRequests, maxBuffer |-> StreamBuffer, echo |-> FALSE]

\* the transport of the timeout test, which may also answer late or in part
TimedChunks == {coilsResponse, sliceTo(coilsResponse, 3)}

TimedScenario ==
    [operations |-> Operations, chunks |-> TimedChunks,
     maxRequests |-> StreamRequests, maxBuffer |-> StreamBuffer, echo |-> FALSE]

\* requests whose responses are 7, 16 and 17 bytes long
TimeoutOperations ==
    {readCoilStatus(1, 0, 16), readCoilStatus(1, 0, 88), readCoilStatus(1, 0, 96)}

\* the bus of the timeout options: a device that answers the first kind of
\* request, late, in part or not at all
TimeoutScenario ==
    [operations |-> TimeoutOperations, chunks |-> TimedChunks,
     maxRequests |-> StreamRequests, maxBuffer |-> StreamBuffer, echo |-> FALSE]

\* options.timeout: absent, a number of ms, or a function of the expectation
TimeoutOptions ==
    {[kind |-> "default", value |-> 0], [kind |-> "number", value |-> 300],
     [kind |-> "function", value |-> 40]}

\* the sequences over S of 1 to n elements
BoundedSeq(S, n) == UNION {[1..m -> S] : m \in 1..n}

\* read requests at the ends of the ranges of unit, data address and count
ReadOperations ==
    {[op |-> name, address |-> u, dataAddress |-> a, arg |-> n, list |-> <<>>] :
        name \in {"readCoilStatus", "readInputStatus", "readHoldingRegisters",
                  "readInputRegisters"},
        u \in {0, 1, 255}, a \in {0, 256, 65535}, n \in {0, 16, 255, 65535}}

\* single writes, those of the tests among them
SingleWriteOperations ==
    {writeCoil(u, a, state) : u \in {1, 96}, a \in {0, 1, 65535}, state \in BOOLEAN}
    \cup {writeRegister(u, a, value) : u \in {1, 96}, a \in {0, 1}, value \in {0, 32, 65535}}

\* the longest list of coil states written at once
MaxCoils == 9

\* the longest list of register values written at once
MaxRegisters == 2

WriteCoilsOperations ==
    {writeCoils(1, 19, states) : states \in BoundedSeq(BOOLEAN, MaxCoils)}

WriteRegistersOperations ==
    {writeRegisters(u, a, values) :
        u \in {1, 96}, a \in {0, 258}, values \in BoundedSeq({0, 258, 65535}, MaxRegisters)}

EncodeOperations ==
    ReadOperations \cup SingleWriteOperations \cup WriteCoilsOperations
    \cup WriteRegistersOperations

\* one request at a time on the encoding bus
EncodeRequests == 1

\* the bytes the encoding bus may hold unparsed
EncodeBuffer == 16

\* a transport that hands every written buffer back to read(), as the
\* write() of the tests does
EncodeScenario(operations) ==
    [operations |-> operations, chunks |-> {},
     maxRequests |-> EncodeRequests, maxBuffer |-> EncodeBuffer, echo |-> TRUE]

\* the reads the responses of ReadResponses answer
DecodeOperations ==
    {readCoilStatus(1, 0, 16), readInputStatus(1, 0, 16),
     readHoldingRegisters(1, 0, 2), readInputRegisters(1, 0, 1)}

\* the bytes the decoding bus may hold unparsed: one response
DecodeBuffer == 9

\* one read at a time, answered by any of the read responses at any time
DecodeScenario ==
    [operations |-> DecodeOperations, chunks |-> ReadResponses,
     maxRequests |-> EncodeRequests, maxBuffer |-> DecodeBuffer, echo |-> FALSE]

\* the bytes of frames before their trailer: echoes of single writes and
\* responses to reads of up to 16 coils
CrcBodies ==
    {<<u, code, a, b, c, d>> :
        u \in {1, 255}, code \in {5, 6}, a \in {0, 255}, b \in {0, 1, 255},
        c \in {0, 255}, d \in {0, 1, 32, 255}}
    \cup {<<1, 1, 2, low, high>> : low \in {0, 3, 255}, high \in {0, 3, 255}}
    \cup {<<1, 1, 1, low>> : low \in {0, 3, 255}}

\* a body with its crc16 as the trailer, with the trailer's bytes swapped,
\* and with trailers that are off by one in either byte
CrcFrames(body) ==
    LET crc == crc16(body)
    IN  {body \o <<crc % 256, crc \div 256>>,
         body \o <<crc \div 256, crc % 256>>,
         body \o <<(crc + 1) % 256, crc \div 256>>,
         body \o <<crc % 256, ((crc \div 256) + 1) % 256>>}

\* a bus that is handed one frame, rightly or wrongly trailed
CrcScenario(frame) ==
    [operations |-> {}, chunks |-> {frame},
     maxRequests |-> EncodeRequests, maxBuffer |-> EncodeBuffer, echo |-> FALSE]

\* a write echo whose trailer is off by one
badEcho == <<1, 5, 0, 1, 255, 0, 221, 251>>

\* deliveries of two frames, of a frame after a faulty one, and of parts
ResyncChunks ==
    {badCrc \o coilsResponse, badEcho \o coilEcho, coilsResponse \o coilEcho,
     coilsResponse, coilEcho, sliceTo(coilsResponse, 3), sliceFrom(coilsResponse, 3)}

\* a transport that delivers several frames in one chunk
ResyncScenario ==
    [operations |-> Operations, chunks |-> ResyncChunks,
     maxRequests |-> ResyncRequests, maxBuffer |-> ResyncBuffer, echo |-> FALSE]

\* one operation of each kind, on three units
UnitOperations ==
    {readCoilStatus(1, 0, 16), readInputStatus(2, 1, 9),
     readHoldingRegisters(1, 2, 2), readInputRegisters(2, 0, 1),
     writeCoil(1, 1, TRUE), writeRegister(96, 0, 32),
     writeCoils(2, 19, <<TRUE, FALSE>>), writeRegisters(96, 258, <<258>>)}

\* callers that go through unit handles, a device that answers two of them
UnitScenario ==
    [operations |-> UnitOperations, chunks |-> {coilsResponse, coilEcho},
     maxRequests |-> StreamRequests, maxBuffer |-> StreamBuffer, echo |-> FALSE]

\* every operation and every chunk of the scenarios
AnyOperation ==
    Operations \cup TimeoutOperations \cup EncodeOperations \cup DecodeOperations
    \cup UnitOperations

AnyChunk ==
    StreamChunks \cup QueueChunks \cup TimedChunks \cup ReadResponses \cup ResyncChunks

-----------------------------------------------------------------------------
\* The state machine

Bus ==
    [currentExpectation |-> currentExpectation, promise |-> promise,
     settleCalls |-> settleCalls, expectationTimeout |-> expectationTimeout]

Quiet ==
    [action |-> "none", req |-> 0, before |-> 0, carried |-> 0, chunk |-> <<>>,
     events |-> <<>>]

InitWith(sc, option) ==
    /\ scenario = sc
    /\ timeoutOption = option
    /\ invoked = <<>>
    /\ promise = <<>>
    /\ settleCalls = <<>>
    /\ dispatched = {}
    /\ written = <<>>
    /\ currentExpectation = Undefined
    /\ readingBuffer = <<>>
    /\ expectationTimeout = <<>>
    /\ writingQueue = <<>>
    /\ intervalStarted = FALSE
    /\ sweepIn = 0
    /\ elapsed = 0
    /\ uncaught = FALSE
    /\ staleBytes = 0
    /\ last = Quiet

DefaultTimeout == [kind |-> "default", value |-> 0]

Init == InitWith(QueueScenario, DefaultTimeout)

\* the synchronous part of writeBufferWithExpectation: chain a new promise
Invoke(o) ==
    /\ o \in scenario.operations
    /\ Len(invoked) < scenario.maxRequests
    /\ invoked' = Append(invoked, [operation |-> o, buffer |-> RequestBuffer(o),
                                   expectation |-> RequestExpectation(o)])
    /\ promise' = Append(promise, Pending)
    /\ settleCalls' = Append(settleCalls, 0)
    /\ last' = Quiet
    /\ UNCHANGED <<writingQueue, scenario, timeoutOption, dispatched, written, currentExpectation,
                   readingBuffer, expectationTimeout, intervalStarted, sweepIn,
                   elapsed, uncaught, staleBytes>>

\* canDispatch without the wait for the previous promise
canDispatchUnchained(k) ==
    /\ k \in 1..Len(invoked)
    /\ k \notin dispatched

\* canDispatch that waits for an idle bus instead of the previous promise
canDispatchWhenIdle(k) ==
    /\ k \in 1..Len(invoked)
    /\ k \notin dispatched
    /\ currentExpectation = Undefined

\* canDispatch with then() in place of catch().finally(): a rejected
\* request holds up the queue
canDispatchAfterSuccess(k) ==
    /\ k \in 1..Len(invoked)
    /\ k \notin dispatched
    /\ IF k = 1 THEN TRUE ELSE promise[k - 1].state = "fulfilled"

\* canDispatch of a queue whose callback may run again for the same request
canDispatchAgain(k) ==
    /\ k \in 1..Len(invoked)
    /\ IF k = 1 THEN TRUE ELSE promise[k - 1].state # "pending"

\* prevPromise.catch(...).finally(...) of request k is ready to run
canDispatch(k) ==
    /\ k \in 1..Len(invoked)
    /\ k \notin dispatched
    /\ IF k = 1 THEN TRUE ELSE promise[k - 1].state # "pending"

\* a dispatch that leaves the bytes read so far in the reassembly buffer
bufferKeptAtDispatch(buffer) == buffer

\* this.readingBuffer = new ArrayBuffer(0)
bufferAtDispatch(buffer) == <<>>

\* a promise reaction is queued: it runs before any timer does
microtaskPending == \E k \in 1..Len(invoked) : canDispatch(k)

\* the finally callback of writeBufferWithExpectation for request k
Dispatch(k) ==
    /\ canDispatch(k)
    /\ LET e == invoked[k].expectation
           expectation == [req |-> k, address |-> e.address, code |-> e.code,
                           length |-> e.length, timeout |-> k]
       IN  /\ expectationTimeout' =
                 addExpectationTimeout(expectationTimeout, k, k,
                                       timeout(timeoutOption, expectation))
           /\ currentExpectation' = expectation
    /\ intervalStarted' = TRUE
    /\ sweepIn' = IF intervalStarted THEN sweepIn ELSE SweepPeriod
    /\ readingBuffer' = bufferAtDispatch(readingBuffer)
    /\ staleBytes' = Len(bufferAtDispatch(readingBuffer))
    /\ written' = Append(written, [req |-> k, buffer |-> invoked[k].buffer])
    /\ dispatched' = dispatched \cup {k}
    /\ elapsed' = 0
    /\ last' = [Quiet EXCEPT !.action = "Dispatch", !.req = k,
                             !.before = currentExpectation.req,
                             !.carried = Len(readingBuffer)]
    /\ UNCHANGED <<writingQueue, scenario, timeoutOption, invoked, promise, settleCalls, uncaught>>

\* the buffers handed to write() so far
Echoes == {written[i].buffer : i \in 1..Len(written)}

\* the chunks the transport can deliver now
Deliverable == scenario.chunks \cup (IF scenario.echo THEN Echoes ELSE {})

\* the transport delivers a chunk: read(chunk)
Read(chunk) ==
    /\ chunk \in Deliverable
    /\ Len(readingBuffer) + Len(chunk) <= scenario.maxBuffer
    /\ LET r == read(Bus, readingBuffer, chunk)
       IN  /\ currentExpectation' = r.bus.currentExpectation
           /\ promise' = r.bus.promise
           /\ settleCalls' = r.bus.settleCalls
           /\ expectationTimeout' = r.bus.expectationTimeout
           /\ readingBuffer' = IF r.threw THEN readingBuffer ELSE r.buffer
           /\ uncaught' = (uncaught \/ r.threw)
           /\ staleBytes' = Max(0, staleBytes - (Len(concat(readingBuffer, chunk))
                                                 - Len(r.buffer)))
           /\ last' = [Quiet EXCEPT !.action = "Read",
                                    !.before = currentExpectation.req,
                                    !.carried = Len(readingBuffer),
                                    !.chunk = chunk,
                                    !.events = r.events]
    /\ UNCHANGED <<writingQueue, scenario, timeoutOption, invoked, dispatched, written,
                   intervalStarted, sweepIn, elapsed>>

\* the clock step of the model
TickStep == SweepPeriod \div TicksPerSweep

\* the span of time followed while one expectation is pending (no request
\* stays pending that long: the guard of Tick only keeps a clock finite)
Horizon == Ms(2000)

\* time passes, up to the next tick of the interval
Tick ==
    /\ intervalStarted
    /\ sweepIn > 0
    /\ elapsed < Horizon
    /\ ~microtaskPending
    /\ LET d == Min(TickStep, sweepIn)
       IN  /\ sweepIn' = sweepIn - d
           /\ expectationTimeout' =
                 [i \in 1..Len(expectationTimeout) |->
                     [expectationTimeout[i] EXCEPT !.expires = @ - d]]
           /\ elapsed' = IF currentExpectation # Undefined THEN elapsed + d ELSE elapsed
    /\ last' = Quiet
    /\ UNCHANGED <<writingQueue, scenario, timeoutOption, invoked, promise, settleCalls, dispatched,
                   written, currentExpectation, readingBuffer, intervalStarted,
                   uncaught, staleBytes>>

\* a sweep that also empties the reassembly buffer
SweepClearingBuffer ==
    /\ intervalStarted
    /\ sweepIn = 0
    /\ ~microtaskPending
    /\ LET r == sweep(Bus)
       IN  /\ currentExpectation' = r.bus.currentExpectation
           /\ promise' = r.bus.promise
           /\ settleCalls' = r.bus.settleCalls
           /\ expectationTimeout' = r.bus.expectationTimeout
           /\ uncaught' = (uncaught \/ r.threw)
           /\ last' = [Quiet EXCEPT !.action = "Sweep",
                                    !.before = currentExpectation.req,
                                    !.events = r.events]
    /\ sweepIn' = SweepPeriod
    /\ readingBuffer' = <<>>
    /\ UNCHANGED <<writingQueue, scenario, timeoutOption, invoked, dispatched, written,
                   intervalStarted, elapsed, staleBytes>>

\* the interval fires: the sweep over the timeout table
Sweep ==
    /\ intervalStarted
    /\ sweepIn = 0
    /\ ~microtaskPending
    /\ LET r == sweep(Bus)
       IN  /\ currentExpectation' = r.bus.currentExpectation
           /\ promise' = r.bus.promise
           /\ settleCalls' = r.bus.settleCalls
           /\ expectationTimeout' = r.bus.expectationTimeout
           /\ uncaught' = (uncaught \/ r.threw)
           /\ last' = [Quiet EXCEPT !.action = "Sweep",
                                    !.before = currentExpectation.req,
                                    !.events = r.events]
    /\ sweepIn' = SweepPeriod
    /\ UNCHANGED <<writingQueue, scenario, timeoutOption, invoked, dispatched, written, readingBuffer,
                   intervalStarted, elapsed, staleBytes>>

\* a caller decodes the request buffer of an operation: tryParse(buffer, false)
TryParseOutgoing(o) ==
    /\ o \in scenario.operations
    /\ LET p == tryParseOutgoing(RequestBuffer(o))
       IN  last' = [Quiet EXCEPT
                        !.action = "tryParse",
                        !.events = <<[frame |-> p.frame, req |-> 0,
                                      outcome |-> p.error, result |-> p.result,
                                      operation |-> o]>>]
    /\ UNCHANGED <<writingQueue, scenario, timeoutOption, invoked, promise, settleCalls, dispatched,
                   written, currentExpectation, readingBuffer, expectationTimeout,
                   intervalStarted, sweepIn, elapsed, uncaught, staleBytes>>

\* bus.unit(address) by itself
GetUnit(address) ==
    /\ \E o \in scenario.operations : o.address = address
    /\ last' = [Quiet EXCEPT !.action = "unit", !.events = <<ModBusUnit(address)>>]
    /\ UNCHANGED <<writingQueue, scenario, timeoutOption, invoked, promise, settleCalls, dispatched,
                   written, currentExpectation, readingBuffer, expectationTimeout,
                   intervalStarted, sweepIn, elapsed, uncaught, staleBytes>>

\* bus.unit(address).name(dataAddress, ...): the handle calls the bus
\* operation, whose synchronous part chains a new promise
UnitInvoke(address, name, dataAddress, arg, list) ==
    LET o == unitCall(ModBusUnit(address), name, dataAddress, arg, list)
    IN  /\ \E called \in scenario.operations :
              /\ called.op = name /\ called.address = address
              /\ called.dataAddress = dataAddress
              /\ called.arg = arg /\ called.list = list
        /\ Len(invoked) < scenario.maxRequests
        /\ invoked' = Append(invoked, [operation |-> o, buffer |-> RequestBuffer(o),
                                       expectation |-> RequestExpectation(o)])
        /\ promise' = Append(promise, Pending)
        /\ settleCalls' = Append(settleCalls, 0)
        /\ last' = [Quiet EXCEPT
                        !.action = "unitInvoke",
                        !.events = <<[unit |-> address, name |-> name,
                                      dataAddress |-> dataAddress, arg |-> arg,
                                      list |-> list]>>]
        /\ UNCHANGED <<writingQueue, scenario, timeoutOption, dispatched, written, currentExpectation,
                       readingBuffer, expectationTimeout, intervalStarted, sweepIn,
                       elapsed, uncaught, staleBytes>>

\* a caller decodes a received buffer: tryParse(buffer)
TryParseIncoming(buffer) ==
    /\ buffer \in scenario.chunks
    /\ LET p == tryParse(buffer)
       IN  last' = [Quiet EXCEPT
                        !.action = "tryParse",
                        !.events = <<[frame |-> p.frame, req |-> 0,
                                      outcome |-> p.error, result |-> p.result,
                                      buffer |-> buffer]>>]
    /\ UNCHANGED <<writingQueue, scenario, timeoutOption, invoked, promise, settleCalls, dispatched,
                   written, currentExpectation, readingBuffer, expectationTimeout,
                   intervalStarted, sweepIn, elapsed, uncaught, staleBytes>>

Next ==
    \/ \E o \in AnyOperation : Invoke(o)
    \/ \E k \in 1..Len(invoked) : Dispatch(k)
    \/ \E chunk \in AnyChunk \cup Echoes : Read(chunk)
    \/ Tick
    \/ Sweep

\* the queue scenario with the default timeout
Spec == Init /\ [][Next]_vars

\* the reassembly scenario with the default timeout
StreamInit == InitWith(StreamScenario, DefaultTimeout)

StreamSpec == StreamInit /\ [][Next]_vars

\* the timeout option of 'should support timeout'
TestTimeout == 1000

TimedInit == InitWith(TimedScenario, [kind |-> "number", value |-> TestTimeout])

\* the timeout test's bus: a fixed timeout of 1000 ms
TimedSpec == TimedInit /\ [][Next]_vars

\* a bus constructed with any of the timeout options
TimeoutInit == \E option \in TimeoutOptions : InitWith(TimeoutScenario, option)

TimeoutSpec == TimeoutInit /\ [][Next]_vars

\* a bus whose callers read and whose transport echoes
ReadEncodeInit == InitWith(EncodeScenario(ReadOperations), DefaultTimeout)

ReadEncodeSpec == ReadEncodeInit /\ [][Next]_vars

\* the same for callers that write one coil or one register
SingleWriteInit == InitWith(EncodeScenario(SingleWriteOperations), DefaultTimeout)

SingleWriteSpec == SingleWriteInit /\ [][Next]_vars

\* the same for callers that write several coils
WriteCoilsInit == InitWith(EncodeScenario(WriteCoilsOperations), DefaultTimeout)

WriteCoilsSpec == WriteCoilsInit /\ [][Next]_vars

\* the same for callers that write several registers
WriteRegistersInit == InitWith(EncodeScenario(WriteRegistersOperations), DefaultTimeout)

WriteRegistersSpec == WriteRegistersInit /\ [][Next]_vars

\* a bus whose callers read and whose device answers with read responses
DecodeInit == InitWith(DecodeScenario, DefaultTimeout)

DecodeSpec == DecodeInit /\ [][Next]_vars

\* a caller that decodes the request buffer of one operation, any of them,
\* as an outgoing frame
ParseInit ==
    \E o \in EncodeOperations : InitWith(EncodeScenario({o}), DefaultTimeout)

ParseNext == \E o \in AnyOperation : TryParseOutgoing(o)

ParseSpec == ParseInit /\ [][ParseNext]_vars

\* what a device answers to a request: the payload of a read with its byte
\* count, the echo of a single write, address and count of a multiple write
DeviceResponse(o) ==
    IF o.op \in {"readCoilStatus", "readInputStatus"}
    THEN withCrc(<<o.address, RequestCode(o), (o.arg + 7) \div 8>>
                 \o [i \in 1..((o.arg + 7) \div 8) |-> 165])
    ELSE IF o.op \in {"readHoldingRegisters", "readInputRegisters"}
    THEN withCrc(<<o.address, RequestCode(o), 2 * o.arg>>
                 \o [i \in 1..(2 * o.arg) |-> 165])
    ELSE IF o.op \in {"writeCoil", "writeRegister"}
    THEN RequestBuffer(o)
    ELSE withCrc(<<o.address, RequestCode(o)>> \o be16(o.dataAddress) \o be16(o.arg))

\* reads of 1 to ExpectCoils coils or inputs and of 1 to ExpectRegisters
\* registers, and writes of each kind
ExpectOperations ==
    {readCoilStatus(1, 0, n) : n \in 1..ExpectCoils}
    \cup {readInputStatus(2, 19, n) : n \in 1..ExpectCoils}
    \cup {readHoldingRegisters(1, 0, n) : n \in 1..ExpectRegisters}
    \cup {readInputRegisters(96, 258, n) : n \in 1..ExpectRegisters}
    \cup {writeCoil(1, 1, TRUE), writeCoil(2, 0, FALSE), writeRegister(96, 0, 32),
          writeCoils(1, 19, <<TRUE, FALSE, TRUE>>),
          writeCoils(2, 0, <<TRUE, TRUE, TRUE, TRUE, TRUE, TRUE, TRUE, TRUE, TRUE>>),
          writeRegisters(1, 0, <<258>>), writeRegisters(96, 258, <<0, 65535>>)}

\* one caller of operation o, a device that answers it
ExpectScenario(o) ==
    [operations |-> {o}, chunks |-> {DeviceResponse(o)},
     maxRequests |-> EncodeRequests, maxBuffer |-> Len(DeviceResponse(o)),
     echo |-> FALSE]

ExpectInit == \E o \in ExpectOperations : InitWith(ExpectScenario(o), DefaultTimeout)

ExpectNext ==
    \/ \E o \in scenario.operations : Invoke(o)
    \/ \E k \in 1..Len(invoked) : Dispatch(k)
    \/ \E chunk \in scenario.chunks : Read(chunk)
    \/ Tick
    \/ Sweep

ExpectSpec == ExpectInit /\ [][ExpectNext]_vars

\* the exception response of a unit to a request of the given function code
exceptionResponse(address, code, exception) ==
    withCrc(<<address, code + 128, exception>>)

ExceptionRequests == 1

ExceptionBuffer == 10

\* exception responses, a write echo whole and cut after 5 bytes, and the
\* answer to the read
ExceptionChunks ==
    {exceptionResponse(1, 1, 2), exceptionResponse(1, 5, 2),
     sliceTo(coilEcho, 5), sliceFrom(coilEcho, 5), coilEcho, coilsResponse}

ExceptionScenario ==
    [operations |-> Operations, chunks |-> ExceptionChunks,
     maxRequests |-> ExceptionRequests, maxBuffer |-> ExceptionBuffer,
     echo |-> FALSE]

\* a bus whose units answer with exception responses
ExceptionInit == InitWith(ExceptionScenario, DefaultTimeout)

ExceptionSpec == ExceptionInit /\ [][ExpectNext]_vars

-----------------------------------------------------------------------------
\* The browser build (index.browser.ts)

MODBUS_RESPONSE_TIMEOUT == 250

\* the most entries the writing queue may hold when an operation is accepted
QueueLimit == 10

\* the plain string a browser promise is rejected with
Message(text, unit) == [error |-> text, hex |-> unit]

\* setTimeout(callback, delay): one more armed timer
setTimeout(timers, timeoutId, delay) ==
    Append(timers, [timeoutId |-> timeoutId, expires |-> delay, callback |-> timeoutId])

\* clearTimeout(timeout)
clearTimeout(timers, timeoutId) == SelectSeq(timers, LAMBDA e : e.timeoutId # timeoutId)

\* a parseFrame whose length leaves the CRC trailer out of the count
parseFrameWithoutTrailer(buffer) ==
    LET address == getUint8(buffer, 0)
        code == getUint8(buffer, 1)
        length == IF code >= 1 /\ code <= 4 THEN getUint8(buffer, 2) + 3 ELSE 6
    IN  IF Len(buffer) < length
        THEN [found |-> FALSE, frame |-> NoFrame, buffer |-> buffer]
        ELSE [found |-> TRUE,
              frame |-> [crc |-> getUint16(buffer, length - 2, TRUE),
                         address |-> address,
                         code |-> code,
                         length |-> length,
                         data |-> sliceTo(buffer, length - 2)],
              buffer |-> sliceFrom(buffer, length)]

\* parseFrame(buffer): the frame at the front and the rest of the buffer
parseFrame(buffer) ==
    LET address == getUint8(buffer, 0)
        code == getUint8(buffer, 1)
        length == IF code >= 1 /\ code <= 4 THEN getUint8(buffer, 2) + 5 ELSE 8
    IN  IF Len(buffer) < length
        THEN [found |-> FALSE, frame |-> NoFrame, buffer |-> buffer]
        ELSE [found |-> TRUE,
              frame |-> [crc |-> getUint16(buffer, length - 2, TRUE),
                         address |-> address,
                         code |-> code,
                         length |-> length,
                         data |-> sliceTo(buffer, length - 2)],
              buffer |-> sliceFrom(buffer, length)]

\* clearTimeout(timeout); reject(message); this.currentExpectation = undefined
rejectCurrent(bus, message) ==
    LET cur == bus.currentExpectation
    IN  settle([bus EXCEPT !.currentExpectation = Undefined,
                           !.expectationTimeout = clearTimeout(@, cur.timeout)],
               cur.req, "rejected", Message(message, <<>>))

\* clearTimeout(timeout); resolve(ret); this.currentExpectation = undefined
resolveCurrent(bus, ret) ==
    LET cur == bus.currentExpectation
    IN  settle([bus EXCEPT !.currentExpectation = Undefined,
                           !.expectationTimeout = clearTimeout(@, cur.timeout)],
               cur.req, "fulfilled", ret)

\* a checksum fault that rejects but leaves the timer armed and the
\* expectation in place
crcFaultKeepingExpectation(bus) ==
    IF bus.currentExpectation # Undefined
    THEN settle(bus, bus.currentExpectation.req, "rejected", Message("CRC error", <<>>))
    ELSE bus

\* the branch of read() for a frame whose checksum is wrong
crcFault(bus) ==
    IF bus.currentExpectation # Undefined THEN rejectCurrent(bus, "CRC error") ELSE bus

\* the for (;;) loop of the browser read(); threw: a decoder's exception
\* left read() before it stored the buffer
RECURSIVE browserReadLoop(_, _, _)
browserReadLoop(bus, buffer, events) ==
    IF Len(buffer) < 5
    THEN [bus |-> bus, buffer |-> buffer, events |-> events, threw |-> FALSE]
    ELSE LET p == parseFrame(buffer)
         IN  IF ~p.found
             THEN [bus |-> bus, buffer |-> buffer, events |-> events, threw |-> FALSE]
             ELSE IF ~crcMatches(p.frame)
             THEN browserReadLoop(crcFault(bus), p.buffer,
                                  Append(events, Event(bus, p.frame, "CRC error")))
             ELSE IF isExpecting(bus, p.frame)
             THEN LET r == parseResult(p.frame)
                  IN  IF r.threw
                      THEN [bus |-> bus, buffer |-> p.buffer,
                            events |-> Append(events, Event(bus, p.frame, "RangeError")),
                            threw |-> TRUE]
                      ELSE browserReadLoop(resolveCurrent(bus, r.result), p.buffer,
                                           Append(events, Event(bus, p.frame, "resolve")))
             ELSE IF bus.currentExpectation # Undefined
             THEN browserReadLoop(rejectCurrent(bus, "Unexpected response"), p.buffer,
                                  Append(events,
                                         Event(bus, p.frame, "Unexpected response")))
             ELSE browserReadLoop(bus, p.buffer,
                                  Append(events, Event(bus, p.frame, "ignored")))

\* a saturation test that already refuses the entry that fills the queue
queueIsFullAtLimit(queue) == Len(queue) >= QueueLimit

\* this.writingQueue.length > 10
queueIsFull(queue) == Len(queue) > QueueLimit

\* the fields of the bus writeNext() works on
BrowserBus ==
    [currentExpectation |-> currentExpectation, expectationTimeout |-> expectationTimeout,
     writingQueue |-> writingQueue, written |-> written]

\* writeNext(): send the head of the queue unless a request is in flight
writeNext(bus) ==
    IF bus.currentExpectation # Undefined
    THEN bus
    ELSE LET head == Head(bus.writingQueue)
             e == head.expectation
         IN  [currentExpectation |-> [req |-> head.req, address |-> e.address,
                                      code |-> e.code, length |-> e.length,
                                      timeout |-> head.req],
              expectationTimeout |-> setTimeout(bus.expectationTimeout, head.req,
                                                Ms(MODBUS_RESPONSE_TIMEOUT)),
              writingQueue |-> Tail(bus.writingQueue),
              written |-> Append(bus.written, [req |-> head.req, buffer |-> head.buffer])]

\* the operations and the transport of the browser scenario
BrowserChunks ==
    {coilsResponse, coilEcho, badCrc \o coilsResponse,
     sliceTo(coilsResponse, 3), sliceFrom(coilsResponse, 3)}

BrowserScenario ==
    [operations |-> Operations, chunks |-> BrowserChunks,
     maxRequests |-> BrowserRequests, maxBuffer |-> BrowserBuffer, echo |-> FALSE]

\* many calls of one operation, a device that does not answer
SaturationScenario ==
    [operations |-> {readCoilStatus(1, 0, 16)}, chunks |-> {},
     maxRequests |-> SaturationRequests, maxBuffer |-> Len(coilsResponse),
     echo |-> FALSE]

\* an operation of the browser build: writeBufferWithExpectation
BrowserInvoke(o) ==
    /\ o \in scenario.operations
    /\ Len(invoked) < scenario.maxRequests
    /\ LET k == Len(invoked) + 1
           entry == [operation |-> o, buffer |-> RequestBuffer(o),
                     expectation |-> RequestExpectation(o)]
       IN  /\ invoked' = Append(invoked, entry)
           /\ IF queueIsFull(writingQueue)
              THEN /\ promise' =
                         Append(promise,
                                [state |-> "rejected",
                                 value |-> Message("ModBus: expectation queue is full!",
                                                   <<>>)])
                   /\ settleCalls' = Append(settleCalls, 1)
                   /\ last' = [Quiet EXCEPT !.action = "Invoke", !.req = k,
                                            !.before = currentExpectation.req,
                                            !.events = <<[frame |-> NoFrame, req |-> k,
                                                          outcome |-> "full"]>>]
                   /\ UNCHANGED <<writingQueue, currentExpectation, expectationTimeout,
                                  written, dispatched, staleBytes>>
              ELSE LET pushed == [BrowserBus EXCEPT
                                    !.writingQueue =
                                        Append(@, [req |-> k, buffer |-> entry.buffer,
                                                   expectation |-> entry.expectation])]
                       next == writeNext(pushed)
                   IN  /\ promise' = Append(promise, Pending)
                       /\ settleCalls' = Append(settleCalls, 0)
                       /\ writingQueue' = next.writingQueue
                       /\ currentExpectation' = next.currentExpectation
                       /\ expectationTimeout' = next.expectationTimeout
                       /\ written' = next.written
                       /\ dispatched' = {next.written[i].req : i \in 1..Len(next.written)}
                       /\ staleBytes' = IF Len(next.written) > Len(written)
                                        THEN Len(readingBuffer) ELSE staleBytes
                       /\ last' = [Quiet EXCEPT !.action = "Invoke", !.req = k,
                                                !.before = currentExpectation.req,
                                                !.carried = Len(readingBuffer)]
    /\ UNCHANGED <<scenario, timeoutOption, readingBuffer, intervalStarted, sweepIn,
                   elapsed, uncaught>>

\* the transport delivers a chunk to the browser build: read(chunk)
BrowserRead(chunk) ==
    /\ chunk \in Deliverable
    /\ Len(readingBuffer) + Len(chunk) <= scenario.maxBuffer
    /\ LET r == browserReadLoop(Bus, concat(readingBuffer, chunk), <<>>)
       IN  /\ currentExpectation' = r.bus.currentExpectation
           /\ promise' = r.bus.promise
           /\ settleCalls' = r.bus.settleCalls
           /\ expectationTimeout' = r.bus.expectationTimeout
           /\ readingBuffer' = IF r.threw THEN readingBuffer ELSE r.buffer
           /\ uncaught' = (uncaught \/ r.threw)
           /\ staleBytes' = IF r.threw THEN staleBytes
                            ELSE Max(0, staleBytes - (Len(concat(readingBuffer, chunk))
                                                      - Len(r.buffer)))
           /\ last' = [Quiet EXCEPT !.action = "Read",
                                    !.before = currentExpectation.req,
                                    !.carried = Len(readingBuffer),
                                    !.chunk = chunk,
                                    !.events = r.events]
    /\ UNCHANGED <<writingQueue, scenario, timeoutOption, invoked, dispatched, written,
                   intervalStarted, sweepIn, elapsed>>

\* time passes while a timer is armed, up to the moment it is due
BrowserTick ==
    /\ expectationTimeout # <<>>
    /\ \A i \in 1..Len(expectationTimeout) : expectationTimeout[i].expires > 0
    /\ expectationTimeout' =
          [i \in 1..Len(expectationTimeout) |->
              [expectationTimeout[i] EXCEPT !.expires = @ - Min(TickStep, @)]]
    /\ last' = Quiet
    /\ UNCHANGED <<writingQueue, scenario, timeoutOption, invoked, promise, settleCalls,
                   dispatched, written, currentExpectation, readingBuffer,
                   intervalStarted, sweepIn, elapsed, uncaught, staleBytes>>

\* a timer armed by writeNext() fires: the callback rejects its request and
\* clears the current expectation
BrowserTimeout ==
    /\ expectationTimeout # <<>>
    /\ Head(expectationTimeout).expires = 0
    /\ LET k == Head(expectationTimeout).callback
           fired == settle(Bus, k, "rejected",
                           Message("ModBus: Expectation Timeout on Unit:",
                                   <<invoked[k].expectation.address>>))
       IN  /\ promise' = fired.promise
           /\ settleCalls' = fired.settleCalls
           /\ currentExpectation' = Undefined
           /\ expectationTimeout' = Tail(expectationTimeout)
           /\ last' = [Quiet EXCEPT !.action = "Timeout", !.req = k,
                                    !.before = currentExpectation.req]
    /\ UNCHANGED <<writingQueue, scenario, timeoutOption, invoked, dispatched, written,
                   readingBuffer, intervalStarted, sweepIn, elapsed, uncaught,
                   staleBytes>>

BrowserNext ==
    \/ \E o \in Operations : BrowserInvoke(o)
    \/ \E chunk \in BrowserChunks : BrowserRead(chunk)
    \/ BrowserTick
    \/ BrowserTimeout

BrowserInit == InitWith(BrowserScenario, DefaultTimeout)

BrowserSpec == BrowserInit /\ [][BrowserNext]_vars

\* time passes and armed timers fire; nobody is obliged to call again
BrowserFairSpec == BrowserSpec /\ WF_vars(BrowserTick) /\ WF_vars(BrowserTimeout)

SaturationInit == InitWith(SaturationScenario, DefaultTimeout)

\* callers keep calling a device that does not answer
SaturationNext ==
    \/ \E o \in Operations : BrowserInvoke(o)
    \/ BrowserTick
    \/ BrowserTimeout

SaturationSpec == SaturationInit /\ [][SaturationNext]_vars

\* the shortest frame there is, a read response without payload, with a
\* wrong trailer
badShort == <<1, 1, 0, 0, 0>>

\* deliveries of up to three frames, faulty or valid, and a fragment
LoopChunks ==
    {badShort \o badShort \o badShort, badShort \o coilsResponse,
     coilsResponse \o coilEcho, coilsResponse, sliceTo(coilsResponse, 3)}

\* either build of the bus in front of the same transport
LoopScenario(build) ==
    [operations |-> Operations, chunks |-> LoopChunks,
     maxRequests |-> LoopRequests, maxBuffer |-> LoopBuffer, echo |-> FALSE,
     build |-> build]

LoopInit == \E build \in {"node", "browser"} : InitWith(LoopScenario(build), DefaultTimeout)

LoopNext ==
    \/ /\ scenario.build = "node"
       /\ \/ \E o \in Operations : Invoke(o)
          \/ \E k \in 1..Len(invoked) : Dispatch(k)
          \/ \E chunk \in LoopChunks : Read(chunk)
          \/ Tick
          \/ Sweep
    \/ /\ scenario.build = "browser"
       /\ \/ \E o \in Operations : BrowserInvoke(o)
          \/ \E chunk \in LoopChunks : BrowserRead(chunk)
          \/ BrowserTick
          \/ BrowserTimeout

LoopSpec == LoopInit /\ [][LoopNext]_vars

-----------------------------------------------------------------------------

\* a bus whose transport delivers chunks of several frames
ResyncInit == InitWith(ResyncScenario, DefaultTimeout)

ResyncSpec == ResyncInit /\ [][Next]_vars

\* a bus used through unit handles and directly
UnitInit == InitWith(UnitScenario, DefaultTimeout)

UnitNext ==
    \/ \E o \in UnitOperations : Invoke(o)
    \/ \E o \in UnitOperations :
          UnitInvoke(o.address, o.op, o.dataAddress, o.arg, o.list)
    \/ \E o \in UnitOperations : GetUnit(o.address)
    \/ \E k \in 1..Len(invoked) : Dispatch(k)
    \/ \E chunk \in AnyChunk : Read(chunk)
    \/ Tick
    \/ Sweep

UnitSpec == UnitInit /\ [][UnitNext]_vars

\* a caller that checks one received frame, any of CrcFrames
CrcInit ==
    \E body \in CrcBodies : \E frame \in CrcFrames(body) :
        InitWith(CrcScenario(frame), DefaultTimeout)

CrcNext == \E buffer \in scenario.chunks : TryParseIncoming(buffer)

CrcSpec == CrcInit /\ [][CrcNext]_vars

\* the queue scenario when the interval keeps ticking and queued promise
\* reactions are run
FairSpec ==
    /\ Spec
    /\ WF_vars(Tick)
    /\ WF_vars(Sweep)
    /\ WF_vars(\E k \in 1..Len(invoked) : Dispatch(k))

-----------------------------------------------------------------------------
\* Properties

Settled(k) == k <= Len(promise) /\ promise[k].state # "pending"

\* the requests written to the transport and not yet settled
InFlight == {k \in dispatched : promise[k].state = "pending"}

TimeoutError(k) == Error("EXPECT_TIMEOUT", toHex(invoked[k].buffer))

\* C1 Single-flight: at most one request is written and unsettled at any
\* instant, a dispatch finds currentExpectation undefined, every request
\* written earlier is settled by then, and the pending expectation is the
\* one of the request in flight.
SingleFlight ==
    /\ Cardinality(InFlight) <= 1
    /\ last.action = "Dispatch" =>
          /\ last.before = 0
          /\ \A j \in dispatched \ {last.req} : Settled(j)
    /\ \A k \in InFlight : currentExpectation.req = k

\* C1 witness: request 2 is in flight, request 1 is settled and request 3,
\* invoked meanwhile, waits in the queue.
SingleFlightWitness ==
    /\ Len(invoked) = 3
    /\ dispatched = {1, 2}
    /\ Settled(1)
    /\ InFlight = {2}

\* C2 FIFO dispatch: the i-th buffer handed to write() is the encoded buffer
\* of the i-th invoked operation, and it is written only after request i - 1
\* settled.
FifoDispatch ==
    \A i \in 1..Len(written) :
        /\ written[i].req = i
        /\ written[i].buffer = RequestBuffer(invoked[i].operation)
        /\ i > 1 => Settled(i - 1)

\* C2 witness: three operations, not all alike, were all written.
FifoDispatchWitness ==
    /\ Len(written) = 3
    /\ invoked[1] # invoked[2]
    /\ invoked[2] # invoked[3]

\* C3 Eventual settlement: every invoked operation is eventually dispatched
\* and its promise eventually settled.
EventualSettlement ==
    \A k \in 1..QueueRequests :
        (Len(invoked) >= k) ~> (k \in dispatched /\ Settled(k))

\* C3 witness: the third request, queued behind two others, ended by its
\* deadline after the first two ended in other ways.
EventualSettlementWitness ==
    /\ Len(invoked) = 3
    /\ promise[1].state = "fulfilled"
    /\ promise[2].state = "rejected"
    /\ promise[2].value.error = "UNEXPECTED_RESPONSE"
    /\ promise[3].state = "rejected"
    /\ promise[3].value.error = "EXPECT_TIMEOUT"

\* C4 At-most-once settlement: resolve and reject of a request are called
\* at most once in total, and not at all while its promise is pending.
AtMostOnce ==
    \A k \in 1..Len(invoked) :
        /\ settleCalls[k] <= 1
        /\ settleCalls[k] = 1 <=> promise[k].state # "pending"

\* C4 witness: a frame that would match request 1 is read after request 1
\* timed out, and request 1 has been rejected once.
AtMostOnceWitness ==
    /\ Len(invoked) >= 1
    /\ promise[1] = [state |-> "rejected", value |-> TimeoutError(1)]
    /\ settleCalls[1] = 1
    /\ last.action = "Read"
    /\ Len(last.events) = 1
    /\ last.events[1].frame.address = invoked[1].expectation.address
    /\ last.events[1].frame.code = invoked[1].expectation.code
    /\ last.events[1].frame.length = invoked[1].expectation.length

\* the frame of an event agrees with the expectation of the request that was
\* pending when read() extracted it
MatchesExpectation(e) ==
    /\ e.frame.address = invoked[e.req].expectation.address
    /\ e.frame.code = invoked[e.req].expectation.code
    /\ e.frame.length = invoked[e.req].expectation.length

\* the complete CRC-valid frames the last read() extracted while a request
\* was pending
ValidWhilePending ==
    {i \in 1..Len(last.events) :
        /\ last.events[i].req # 0
        /\ last.events[i].frame # NoFrame
        /\ crcMatches(last.events[i].frame)}

\* C5 Matching response: after a read() that extracted, while request k was
\* pending, a complete CRC-valid frame with the expectation's address, code
\* and length, k's promise is fulfilled with the payload decoded for that
\* code, k's deadline is gone from the timeout table and currentExpectation
\* is undefined.
MatchingResponse ==
    last.action = "Read" =>
        \A i \in ValidWhilePending :
            LET e == last.events[i]
            IN  MatchesExpectation(e) =>
                    /\ promise[e.req] = [state |-> "fulfilled",
                                         value |-> parseResult(e.frame).result]
                    /\ ~hasTimeout(expectationTimeout, e.req)
                    /\ currentExpectation = Undefined

\* C5 witness: the echo of writeCoil(1, 1, true) arrived while that request
\* was pending and resolved it with {address: 1, state: true}.
MatchingResponseWitness ==
    /\ last.action = "Read"
    /\ \E i \in ValidWhilePending :
          /\ MatchesExpectation(last.events[i])
          /\ last.events[i].frame.code = 5
          /\ promise[last.events[i].req] =
                [state |-> "fulfilled", value |-> [address |-> 1, state |-> TRUE]]

\* C6 Unexpected response: after a read() that extracted, while request k
\* was pending, a complete CRC-valid frame that differs from the expectation
\* in address, code or length, k's promise is rejected with
\* UNEXPECTED_RESPONSE, its deadline is gone and currentExpectation is
\* undefined.
UnexpectedResponse ==
    last.action = "Read" =>
        \A i \in ValidWhilePending :
            LET e == last.events[i]
            IN  ~MatchesExpectation(e) =>
                    /\ promise[e.req] = [state |-> "rejected",
                                         value |-> Error("UNEXPECTED_RESPONSE", <<>>)]
                    /\ ~hasTimeout(expectationTimeout, e.req)
                    /\ currentExpectation = Undefined

\* request k was rejected by the sweep
TimedOut(k) ==
    /\ k <= Len(promise)
    /\ promise[k] = [state |-> "rejected", value |-> TimeoutError(k)]

\* the requests the last sweep rejected
SweptRequests == {last.events[i].req : i \in 1..Len(last.events)}

\* what a sweep leaves behind: no deadline that has passed, every request it
\* took out rejected with EXPECT_TIMEOUT and the bus idle, the request that
\* was pending still pending only if its deadline is still ahead, and no
\* exception out of the interval callback
SweepOutcome ==
    /\ \A i \in 1..Len(expectationTimeout) : expectationTimeout[i].expires > 0
    /\ \A k \in SweptRequests : TimedOut(k) /\ last.before = k
    /\ SweptRequests # {} => currentExpectation = Undefined
    /\ last.before # 0 =>
          IF hasTimeout(expectationTimeout, last.before)
          THEN promise[last.before].state = "pending"
          ELSE TimedOut(last.before)
    /\ ~uncaught

\* C7 Timeout outcome: a sweep that finds the pending request's deadline
\* passed rejects its promise with EXPECT_TIMEOUT and leaves the bus idle,
\* and once a request has timed out the request queued behind it is
\* eventually dispatched.
TimeoutOutcome ==
    /\ [](last.action = "Sweep" => SweepOutcome)
    /\ \A k \in 1..(QueueRequests - 1) :
          (TimedOut(k) /\ Len(invoked) > k) ~> (k + 1 \in dispatched)

\* C7 witness: request 2 is dispatched right after the sweep rejected
\* request 1 with EXPECT_TIMEOUT.
TimeoutOutcomeWitness ==
    /\ last.action = "Dispatch"
    /\ last.req = 2
    /\ TimedOut(1)
    /\ currentExpectation.req = 2

\* C8 Timeout timing: a request the sweep rejects has been pending for at
\* least its timeout T and at most T plus one sweep period, and with
\* T = 1000 ms for more than 1000 ms and less than 2000 ms.
TimeoutTiming ==
    (last.action = "Sweep" /\ SweptRequests # {}) =>
        /\ elapsed >= Ms(timeoutOption.value)
        /\ elapsed <= Ms(timeoutOption.value) + SweepPeriod
        /\ timeoutOption.value = TestTimeout =>
              elapsed > Ms(1000) /\ elapsed < Ms(2000)

\* the frames with a wrong trailer the last read() extracted while a request
\* was pending
FaultyWhilePending ==
    {i \in 1..Len(last.events) :
        /\ last.events[i].req # 0
        /\ last.events[i].frame # NoFrame
        /\ ~crcMatches(last.events[i].frame)}

\* C9 Checksum fault: after a read() that extracted, while request k was
\* pending, a complete frame whose trailer differs from crc16 of its data,
\* k's promise is rejected and currentExpectation is undefined.
ChecksumFault ==
    last.action = "Read" =>
        \A i \in FaultyWhilePending :
            /\ promise[last.events[i].req].state = "rejected"
            /\ currentExpectation = Undefined

\* two reads leave the bus and the reassembly buffer as one read does
SameAsOneRead(f, i) ==
    LET one == read(Bus, readingBuffer, f)
        first == read(Bus, readingBuffer, sliceTo(f, i))
        second == read(first.bus, first.buffer, sliceFrom(f, i))
    IN  /\ second.bus = one.bus
        /\ second.buffer = one.buffer

\* C10 Partial delivery: with a request pending, reading a complete frame
\* as two chunks split at any position settles the request as reading it in
\* one chunk does (same promise state and value, same timeout table, same
\* currentExpectation) and leaves the same readingBuffer.
PartialDelivery ==
    currentExpectation # Undefined =>
        \A f \in Frames : \A i \in 0..Len(f) : SameAsOneRead(f, i)

\* C10 witness: the second half of a response arrived in a read() of its
\* own, after its first three bytes, and resolved the pending request.
PartialDeliveryWitness ==
    /\ last.action = "Read"
    /\ last.carried = 3
    /\ Len(last.events) = 1
    /\ last.events[1].outcome = "resolve"
    /\ readingBuffer = <<>>

\* C11 Buffer reset at dispatch: right after a request is written the
\* reassembly buffer is empty, and at no time does the buffer hold a byte
\* that was passed to read() before the latest dispatch, so no such byte is
\* part of a frame that settles the request.
BufferReset ==
    /\ last.action = "Dispatch" => readingBuffer = <<>>
    /\ staleBytes = 0

\* C11 witness: a request was written while the buffer held bytes of an
\* earlier read().
BufferResetWitness ==
    /\ last.action = "Dispatch"
    /\ last.carried > 0
    /\ currentExpectation.req = last.req

\* the longest expected frame length the default timeout is compared over
TimeoutLengths == 40

\* the duration the deadline of request k is armed with
ArmedDuration(k) == getTimeout(expectationTimeout, k).expires

\* the default timeout over the expected lengths up to TimeoutLengths
DefaultDuration(length) == timeout(DefaultTimeout, [length |-> length])

\* C12 Timeout computation: the deadline armed at dispatch lies D after the
\* dispatch, where D is the configured number of ms, the value of the
\* configured function at the request's expectation, or else the larger of
\* 250 ms and expected length * 150000 / 9600 ms; the default is never
\* below 250 ms, is 250 ms up to an expected length of 16 bytes and does
\* not decrease with the expected length.
TimeoutComputation ==
    /\ last.action = "Dispatch" =>
          LET length == invoked[last.req].expectation.length
              D == ArmedDuration(last.req)
          IN  /\ elapsed = 0
              /\ timeoutOption.kind = "number" => D = Ms(timeoutOption.value)
              /\ timeoutOption.kind = "function" =>
                    D = Ms(timeoutOption.value * length)
              /\ timeoutOption.kind = "default" =>
                    /\ 9600 * D = Max(9600 * Ms(250), 150000 * Ms(length))
                    /\ D >= Ms(250)
                    /\ length <= 16 => D = Ms(250)
    /\ \A l1 \in 0..TimeoutLengths :
          /\ DefaultDuration(l1) >= Ms(250)
          /\ l1 <= 16 => DefaultDuration(l1) = Ms(250)
          /\ \A l2 \in l1..TimeoutLengths : DefaultDuration(l1) <= DefaultDuration(l2)

\* C12 witness: a request expecting 17 bytes was written under the default
\* timeout, with a deadline later than 250 ms.
TimeoutComputationWitness ==
    /\ last.action = "Dispatch"
    /\ timeoutOption.kind = "default"
    /\ invoked[last.req].expectation.length = 17
    /\ ArmedDuration(last.req) > Ms(250)

\* the requests the latest read() or sweep failed: by a frame that did not
\* match, by a deadline, or by a frame with a wrong checksum
FailedRequests(outcomes) ==
    {last.events[i].req : i \in {j \in 1..Len(last.events) :
                                     /\ last.events[j].outcome \in outcomes
                                     /\ last.events[j].req # 0}}

\* the bus is Idle, request k has failed and no later request was touched
FailedAlone(k) ==
    /\ currentExpectation = Undefined
    /\ promise[k].state = "rejected"
    /\ \A j \in 1..Len(promise) :
          j > k => promise[j].state = "pending" /\ j \notin dispatched

\* C13 Failure isolation and recovery: after a failure of request k by an
\* unexpected response, a deadline or a checksum fault the bus is Idle, the
\* promise of request k is rejected, and the requests queued behind it are
\* neither rejected nor skipped: they are still pending and still to be
\* written.
FailureIsolation ==
    \A k \in FailedRequests({"reject", "timeout", "CRCError"}) : FailedAlone(k)

\* the same for the failures the code does turn into a rejection
RejectionIsolation ==
    \A k \in FailedRequests({"reject", "timeout"}) : FailedAlone(k)

\* the calls of write() made for request k
WritesOf(k) == {i \in 1..Len(written) : written[i].req = k}

\* C14 No automatic retry: write() is never called twice for the same
\* request; it has been called once, with the request's encoded buffer,
\* for every request that was dispatched, and so for every request that
\* was resolved, rejected or timed out, and never for a request still
\* queued.
NoRetry ==
    \A k \in 1..Len(invoked) :
        /\ Cardinality(WritesOf(k)) <= 1
        /\ \A i \in WritesOf(k) : written[i].buffer = RequestBuffer(invoked[k].operation)
        /\ k \in dispatched <=> Cardinality(WritesOf(k)) = 1
        /\ Settled(k) => Cardinality(WritesOf(k)) = 1

\* C14 witness: request 1 timed out, request 2 was rejected by a foreign
\* frame, and request 3 has been written since.
NoRetryWitness ==
    /\ Len(written) = 3
    /\ promise[1].state = "rejected"
    /\ promise[1].value.error = "EXPECT_TIMEOUT"
    /\ promise[2].state = "rejected"
    /\ promise[2].value.error = "UNEXPECTED_RESPONSE"

\* the eight bytes of a request of unit u, code c and two 16-bit fields
\* a and n, most significant byte first, with the checksum of the first
\* six, least significant byte first
EightBytes(u, c, a, n) ==
    LET body == <<u, c, a \div 256, a % 256, n \div 256, n % 256>>
    IN  body \o <<crc16(body) % 256, crc16(body) \div 256>>

\* the written requests of the read operations
ReadRequests ==
    {i \in 1..Len(written) : RequestCode(invoked[written[i].req].operation) \in 1..4}

\* C15 Read request encoding: the buffer written for a read of n items
\* from data address a of unit u with function code c is u, c, a (high
\* byte, low byte), n (high byte, low byte), then the CRC-16 of these six
\* bytes, low byte first; readCoilStatus(0, 16) of unit 1 writes
\* 01 01 00 00 00 10 3D C6.
ReadEncoding ==
    \A i \in ReadRequests :
        LET o == invoked[written[i].req].operation
        IN  /\ written[i].buffer =
                  EightBytes(o.address, RequestCode(o), o.dataAddress, o.arg)
            /\ o = readCoilStatus(1, 0, 16) =>
                  written[i].buffer = <<1, 1, 0, 0, 0, 16, 61, 198>>

\* C15 witness: a read of 65535 input registers from data address 256 of
\* unit 255 was written.
ReadEncodingWitness ==
    /\ Len(written) = 1
    /\ invoked[1].operation = readInputRegisters(255, 256, 65535)
    /\ written[1].buffer[2] = 4

\* what a single write promises to resolve with
SingleWriteResult(o) ==
    IF o.op = "writeCoil"
    THEN [address |-> o.dataAddress, state |-> o.arg = 1]
    ELSE [address |-> o.dataAddress, value |-> o.arg]

\* C16 Single-write echo: writeCoil writes unit, 5, the data address, FF 00
\* for on or 00 00 for off and the CRC; writeRegister writes unit, 6, the
\* data address, the value and the CRC; and when the bytes written for a
\* request come back through read() while it is pending, its promise is
\* resolved with the data address and the state or value that were written,
\* as for 01 05 00 01 FF 00 DD FA and 60 06 00 00 00 20 80 63.
SingleWriteEcho ==
    /\ \A i \in 1..Len(written) :
          LET o == invoked[written[i].req].operation
          IN  /\ o.op = "writeCoil" =>
                    written[i].buffer =
                        EightBytes(o.address, 5, o.dataAddress,
                                   IF o.arg = 1 THEN 65280 ELSE 0)
              /\ o.op = "writeRegister" =>
                    written[i].buffer = EightBytes(o.address, 6, o.dataAddress, o.arg)
              /\ o = writeCoil(1, 1, TRUE) =>
                    written[i].buffer = <<1, 5, 0, 1, 255, 0, 221, 250>>
              /\ o = writeRegister(96, 0, 32) =>
                    written[i].buffer = <<96, 6, 0, 0, 0, 32, 128, 99>>
    /\ (last.action = "Read" /\ last.before # 0 /\ last.carried = 0
          /\ last.events # <<>>) =>
          LET o == invoked[last.before].operation
              frame == last.events[1].frame
              bytes == frame.data \o <<frame.crc % 256, frame.crc \div 256>>
          IN  (o.op \in {"writeCoil", "writeRegister"}
               /\ bytes = invoked[last.before].buffer) =>
                /\ last.events[1].outcome = "resolve"
                /\ promise[last.before] =
                      [state |-> "fulfilled", value |-> SingleWriteResult(o)]

\* C16 witness: the echo of writeRegister(0, 32) on unit 96 resolved it
\* with address 0 and value 32.
SingleWriteEchoWitness ==
    /\ last.action = "Read"
    /\ last.before = 1
    /\ invoked[1].operation = writeRegister(96, 0, 32)
    /\ promise[1] = [state |-> "fulfilled", value |-> [address |-> 0, value |-> 32]]

\* the least number of bytes that hold n bits
BytesFor(n) == CHOOSE m \in 0..n : 8 * m >= n /\ 8 * (m - 1) < n

\* bit j of byte b, counted from the least significant one
BitOf(b, j) == (b \div (2 ^ j)) % 2

\* the last two bytes of a buffer are the CRC-16 of the bytes before them,
\* least significant byte first
EndsWithCrc(b) ==
    LET crc == crc16(SubSeq(b, 1, Len(b) - 2))
    IN  /\ b[Len(b) - 1] = crc % 256
        /\ b[Len(b)] = crc \div 256

\* C17 WriteMultipleCoils encoding: the buffer written for n coil states
\* has 9 + ceil(n / 8) bytes: unit, 15, the data address and n (each high
\* byte first), the byte count ceil(n / 8), the states packed so that state
\* i is bit i mod 8 of byte 7 + floor(i / 8), the unused bits zero, and the
\* CRC, low byte first.
WriteCoilsEncoding ==
    \A i \in 1..Len(written) :
        LET o == invoked[written[i].req].operation
            b == written[i].buffer
            n == Len(o.list)
        IN  o.op = "writeCoils" =>
              /\ Len(b) = 9 + BytesFor(n)
              /\ SubSeq(b, 1, 7) =
                    <<o.address, 15, o.dataAddress \div 256, o.dataAddress % 256,
                      n \div 256, n % 256, BytesFor(n)>>
              /\ \A j \in 0..(8 * BytesFor(n) - 1) :
                    BitOf(b[7 + (j \div 8) + 1], j % 8) =
                        (IF j < n THEN o.list[j + 1] ELSE 0)
              /\ EndsWithCrc(b)

\* C17 witness: nine coils were written, the first and the ninth of them
\* on, in two data bytes.
WriteCoilsEncodingWitness ==
    /\ Len(written) = 1
    /\ invoked[1].operation.op = "writeCoils"
    /\ invoked[1].operation.list = <<1, 0, 0, 0, 0, 0, 0, 0, 1>>
    /\ SubSeq(written[1].buffer, 7, 9) = <<2, 1, 1>>

\* C18 WriteMultipleRegisters encoding: the buffer written for n register
\* values has 9 + 2n bytes: unit, 16, the data address and n (each high
\* byte first), the byte count 2n, value k in bytes 7 + 2k and 8 + 2k, high
\* byte first, and the CRC, low byte first.
WriteRegistersEncoding ==
    \A i \in 1..Len(written) :
        LET o == invoked[written[i].req].operation
            b == written[i].buffer
            n == Len(o.list)
        IN  o.op = "writeRegisters" =>
              /\ Len(b) = 9 + 2 * n
              /\ SubSeq(b, 1, 7) =
                    <<o.address, 16, o.dataAddress \div 256, o.dataAddress % 256,
                      n \div 256, n % 256, 2 * n>>
              /\ \A k \in 0..(n - 1) :
                    /\ b[7 + 2 * k + 1] = o.list[k + 1] \div 256
                    /\ b[8 + 2 * k + 1] = o.list[k + 1] % 256
              /\ EndsWithCrc(b)

\* C18 witness: the values 258 and 65535 were written to data address 258
\* of unit 96.
WriteRegistersEncodingWitness ==
    /\ Len(written) = 1
    /\ invoked[1].operation = writeRegisters(96, 258, <<258, 65535>>)
    /\ SubSeq(written[1].buffer, 1, 11) = <<96, 16, 1, 2, 0, 2, 4, 1, 2, 255, 255>>

\* the result of decoding a request has the data address and the payload
\* of the operation o it was encoded from
SameRequest(o, result) ==
    /\ result.address = o.dataAddress
    /\ CASE RequestCode(o) \in 1..4 -> result.length = o.arg
         [] RequestCode(o) = 5 -> result.states = <<o.arg = 1>>
         [] RequestCode(o) = 6 -> result.data = <<o.arg>>
         [] RequestCode(o) = 15 ->
                /\ Len(result.states) >= Len(o.list)
                /\ SubSeq(result.states, 1, Len(o.list)) = statesOf(o)
         [] RequestCode(o) = 16 -> result.data = o.list

\* the latest tryParse(buffer, false) gave the operation back
DecodedAsEncoded ==
    LET e == last.events[1]
    IN  /\ e.outcome = "none"
        /\ e.frame.address = e.operation.address
        /\ e.frame.code = RequestCode(e.operation)
        /\ SameRequest(e.operation, e.result)

\* C19 Encode/decode round-trip: for each of the eight operations the
\* request buffer decodes as an outgoing frame without an error, with the
\* unit address, the function code, the data address and the payload of
\* the operation: the count of a read, the state or value of a single
\* write, the states or values of a multiple write.
RoundTrip == last.action = "tryParse" => DecodedAsEncoded

\* the same for the reads and the single writes
RoundTripOfEightBytes ==
    (last.action = "tryParse" /\ RequestCode(last.events[1].operation) \in 1..6)
        => DecodedAsEncoded

\* the events of the latest read() that resolved a read request
ResolvedReads ==
    {i \in 1..Len(last.events) :
        /\ last.events[i].outcome = "resolve"
        /\ last.events[i].frame.code \in 1..4}

\* byte number offset of a frame, counted from 0
FrameByte(frame, offset) == frame.data[offset + 1]

\* C20 Read response decoding: a response that matches a pending read with
\* code 1 or 2 resolves it with states of which state i is bit i mod 8 of
\* frame byte 3 + floor(i / 8), for all bits of the bytes counted by byte
\* 2; one with code 3 or 4 resolves it with data of which item k is the
\* 16-bit number in frame bytes 3 + 2k (high) and 4 + 2k (low); the response
\* 01 01 02 03 00 B9 0C to readCoilStatus(0, 16) of unit 1 gives states 0
\* and 1 on and state 5 off.
ReadDecoding ==
    \A e \in ResolvedReads :
        LET frame == last.events[e].frame
            settled == promise[last.events[e].req]
            count == FrameByte(frame, 2)
        IN  /\ settled.state = "fulfilled"
            /\ frame.code \in {1, 2} =>
                  /\ Len(settled.value.states) = 8 * count
                  /\ \A i \in 0..(8 * count - 1) :
                        settled.value.states[i + 1] =
                            (BitOf(FrameByte(frame, 3 + (i \div 8)), i % 8) = 1)
            /\ frame.code \in {3, 4} =>
                  /\ 2 * Len(settled.value.data) = count
                  /\ \A k \in 0..(Len(settled.value.data) - 1) :
                        settled.value.data[k + 1] =
                            256 * FrameByte(frame, 3 + 2 * k) + FrameByte(frame, 4 + 2 * k)
            /\ frame.data = <<1, 1, 2, 3, 0>> =>
                  /\ settled.value.states[1]
                  /\ settled.value.states[2]
                  /\ ~settled.value.states[6]

\* C20 witness: a response with the registers 258 and 65535 resolved the
\* read of two holding registers.
ReadDecodingWitness ==
    /\ last.action = "Read"
    /\ ResolvedReads # {}
    /\ promise[1] = [state |-> "fulfilled", value |-> [data |-> <<258, 65535>>]]

\* one shift of the reflected CRC-16: the low bit is shifted out and, when
\* it was 1, 0xA001 is XORed in
ReflectedShift(c) == IF (c % 2) = 1 THEN BitXor(c \div 2, 40961) ELSE c \div 2

\* a byte XORed into the low byte, then eight shifts
ReflectedByte(c, byte) ==
    LET c0 == BitXor(c, byte)
        c1 == ReflectedShift(c0)
        c2 == ReflectedShift(c1)
        c3 == ReflectedShift(c2)
        c4 == ReflectedShift(c3)
        c5 == ReflectedShift(c4)
        c6 == ReflectedShift(c5)
        c7 == ReflectedShift(c6)
    IN  ReflectedShift(c7)

\* the bytes from number i on, taken into the CRC c of the bytes before
RECURSIVE ReflectedFrom(_, _, _)
ReflectedFrom(c, bytes, i) ==
    IF c >= 0 /\ i <= Len(bytes)
    THEN ReflectedFrom(ReflectedByte(c, bytes[i]), bytes, i + 1)
    ELSE c

\* CRC-16/MODBUS of the first n bytes, starting from 0xFFFF
ReflectedCrc(bytes, n) == ReflectedFrom(65535, SubSeq(bytes, 1, n), 1)

DirectEntry(call) ==
    LET o == [op |-> call.name, address |-> call.unit,
              dataAddress |-> call.dataAddress, arg |-> call.arg, list |-> call.list]
    IN  [operation |-> o, buffer |-> RequestBuffer(o),
         expectation |-> RequestExpectation(o)]

\* C22 Unit handles are stateless delegates: an operation called on the
\* handle of unit u enqueues exactly what the bus operation called with u
\* enqueues, with the same buffer to write and the same expectation, and
\* touches nothing else; unit(u) by itself changes neither the queue, the
\* expectation, the reassembly buffer nor the timeouts.
UnitDelegation ==
    [][/\ last'.action = "unitInvoke" =>
             /\ invoked' = Append(invoked, DirectEntry(last'.events[1]))
             /\ promise' = Append(promise, Pending)
             /\ UNCHANGED <<dispatched, written, currentExpectation, readingBuffer,
                            expectationTimeout, intervalStarted, sweepIn>>
       /\ last'.action = "unit" =>
             UNCHANGED <<invoked, promise, settleCalls, dispatched, written,
                         currentExpectation, readingBuffer, expectationTimeout,
                         intervalStarted, sweepIn>>]_vars

\* C22 witness: writeRegister(0, 32) was called on the handle of unit 96
\* while another request was in flight.
UnitDelegationWitness ==
    /\ last.action = "unitInvoke"
    /\ last.events[1].unit = 96
    /\ Len(invoked) = 2
    /\ invoked[2].buffer = <<96, 6, 0, 0, 0, 32, 128, 99>>
    /\ currentExpectation.req = 1

\* the length an inbound frame declares in its first three bytes
DeclaredLength(buffer) ==
    IF buffer[2] >= 1 /\ buffer[2] <= 4 THEN buffer[3] + 5 ELSE 8

\* the bytes the turns before turn i of a read() took off the buffer
RECURSIVE ConsumedBefore(_, _)
ConsumedBefore(events, i) ==
    IF i <= 1 THEN 0
    ELSE ConsumedBefore(events, i - 1) + events[i - 1].frame.length

\* buffer starts with a complete frame of good checksum that answers expectation
MatchingFrameAt(buffer, expectation) ==
    /\ Len(buffer) >= 5
    /\ Len(buffer) >= DeclaredLength(buffer)
    /\ buffer[1] = expectation.address
    /\ buffer[2] = expectation.code
    /\ DeclaredLength(buffer) = expectation.length
    /\ LET n == DeclaredLength(buffer) - 2
       IN  ReflectedCrc(buffer, n) = buffer[n + 1] + 256 * buffer[n + 2]

\* C27 CRC-fault resynchronisation: when the frame at the front fails its
\* checksum, read() takes exactly the length that frame declares (byte
\* count + 5 for codes 1 to 4, else 8) off the buffer and goes on parsing in
\* the same call, so that a valid frame answering the pending expectation
\* right behind the faulty one resolves it.
CrcResync ==
    [][last'.action = "Read" =>
          LET input == readingBuffer \o last'.chunk
              events == last'.events
          IN  \A i \in 1..Len(events) :
                events[i].outcome = "CRCError" =>
                   LET start == ConsumedBefore(events, i)
                       bad == sliceFrom(input, start)
                       rest == sliceFrom(bad, DeclaredLength(bad))
                   IN  /\ events[i].frame.length = DeclaredLength(bad)
                       /\ events[i].frame.data = sliceTo(bad, DeclaredLength(bad) - 2)
                       /\ i = Len(events) => readingBuffer' = rest
                       /\ (/\ currentExpectation # Undefined
                           /\ events[i].req = currentExpectation.req
                           /\ MatchingFrameAt(rest, currentExpectation)) =>
                              /\ i < Len(events)
                              /\ events[i + 1].outcome = "resolve"
                              /\ events[i + 1].req = currentExpectation.req
                              /\ promise'[currentExpectation.req].state = "fulfilled"
                              /\ currentExpectation' = Undefined]_vars

\* C27 witness: one delivery held a faulty coil response and the right one
\* behind it, and the request was resolved.
CrcResyncWitness ==
    /\ last.action = "Read"
    /\ last.chunk = badCrc \o coilsResponse
    /\ Len(last.events) = 2
    /\ last.events[1].outcome = "CRCError"
    /\ last.events[2].outcome = "resolve"
    /\ promise[1].state = "fulfilled"
    /\ readingBuffer = <<>>

\* buffer starts with a complete frame whose checksum is right
ValidFrameAt(buffer) ==
    /\ Len(buffer) >= 5
    /\ Len(buffer) >= DeclaredLength(buffer)
    /\ LET n == DeclaredLength(buffer) - 2
       IN  ReflectedCrc(buffer, n) = buffer[n + 1] + 256 * buffer[n + 2]

\* C28 Frame consumption: read() hands every complete frame of good
\* checksum at the front of the buffer to the matcher and takes exactly its
\* length off the buffer, frame after frame and with or without a pending
\* expectation, so that the buffer it leaves holds no complete valid frame
\* at its front, only an incomplete tail.
FrameConsumption ==
    last.action = "Read" =>
       /\ \A i \in 1..Len(last.events) :
             last.events[i].outcome \in {"resolve", "reject", "CRCError"}
       /\ Len(readingBuffer) =
             last.carried + Len(last.chunk) - ConsumedBefore(last.events, Len(last.events) + 1)
       /\ ~ValidFrameAt(readingBuffer)

\* what does hold: a read() none of whose turns met a valid frame without a
\* pending expectation leaves no complete valid frame behind
ConsumptionWhilePending ==
    (/\ last.action = "Read"
     /\ \A i \in 1..Len(last.events) : last.events[i].outcome # "TypeError") =>
        /\ Len(readingBuffer) =
              last.carried + Len(last.chunk)
              - ConsumedBefore(last.events, Len(last.events) + 1)
        /\ ~ValidFrameAt(readingBuffer)

\* fewer than 5 bytes, or fewer than the frame at the front declares
Insufficient(buffer) == Len(buffer) < 5 \/ Len(buffer) < DeclaredLength(buffer)

\* C29 Insufficient data is a wait: an inbound frame is byte[2] + 5 bytes
\* long for codes 1 to 4 and 8 bytes otherwise; a read() that finds fewer
\* than 5 bytes, or fewer than that length, settles nothing, leaves the
\* pending expectation and its deadline as they were and keeps the previous
\* buffer followed by the chunk.
InsufficientDataWaits ==
    [][last'.action = "Read" =>
          LET input == readingBuffer \o last'.chunk
          IN  /\ Insufficient(input) =>
                    /\ last'.events = <<>>
                    /\ promise' = promise
                    /\ settleCalls' = settleCalls
                    /\ currentExpectation' = currentExpectation
                    /\ expectationTimeout' = expectationTimeout
                    /\ readingBuffer' = input
              /\ ~Insufficient(input) =>
                    /\ Len(last'.events) >= 1
                    /\ last'.events[1].frame.length = DeclaredLength(input)]_vars

\* C29 witness: six bytes of a seven-byte response are buffered, three of
\* them from an earlier chunk, and the request is still pending.
InsufficientDataWaitsWitness ==
    /\ last.action = "Read"
    /\ last.carried = 3
    /\ last.events = <<>>
    /\ Len(readingBuffer) = 6
    /\ DeclaredLength(readingBuffer) = 7
    /\ currentExpectation.req = 1
    /\ promise[1].state = "pending"
    /\ expectationTimeout # <<>>

\* the requests of a writing queue, in order
QueuedRequests(queue) == [i \in 1..Len(queue) |-> queue[i].req]

\* C23 Queue saturation (browser build): an operation invoked while more
\* than 10 requests wait to be written is rejected at once with 'ModBus:
\* expectation queue is full!', is not queued and writes nothing; an
\* operation invoked while the bound is not exceeded is always accepted,
\* queued or written; either way no queued or in-flight request is touched.
QueueSaturation ==
    [][last'.action = "Invoke" =>
          LET k == last'.req
          IN  /\ k = Len(invoked) + 1
              /\ \A j \in 1..Len(invoked) : promise'[j] = promise[j]
              /\ currentExpectation # Undefined =>
                    /\ currentExpectation' = currentExpectation
                    /\ expectationTimeout' = expectationTimeout
                    /\ written' = written
              /\ IF Len(writingQueue) > 10
                 THEN /\ promise'[k].state = "rejected"
                      /\ promise'[k].value.error = "ModBus: expectation queue is full!"
                      /\ writingQueue' = writingQueue
                      /\ written' = written
                      /\ currentExpectation' = currentExpectation
                      /\ expectationTimeout' = expectationTimeout
                 ELSE /\ promise'[k].state = "pending"
                      /\ IF currentExpectation # Undefined
                         THEN QueuedRequests(writingQueue') =
                                 Append(QueuedRequests(writingQueue), k)
                         ELSE /\ Append(QueuedRequests(writingQueue), k) =
                                    <<currentExpectation'.req>>
                                    \o QueuedRequests(writingQueue')
                              /\ Len(written') = Len(written) + 1]_vars

\* C23 witness: the thirteenth call found eleven requests waiting behind
\* the one in flight and was turned away.
QueueSaturationWitness ==
    /\ last.action = "Invoke"
    /\ last.req = 13
    /\ promise[13].state = "rejected"
    /\ promise[13].value.error = "ModBus: expectation queue is full!"
    /\ Len(writingQueue) = 11
    /\ currentExpectation.req = 1
    /\ promise[12].state = "pending"

\* C24 Queued dispatch after settlement (browser build): when the request
\* in flight settles (by its response, a foreign frame, a checksum fault or
\* its 250 ms timer) while requests wait in the queue, the head of the
\* queue is written by that very step, without a further operation being
\* invoked, so that accepted requests go out in the order of their calls.
QueuedDispatch ==
    [][(/\ currentExpectation # Undefined
        /\ promise'[currentExpectation.req].state # "pending"
        /\ writingQueue # <<>>) =>
           /\ currentExpectation'.req = Head(writingQueue).req
           /\ writingQueue' = Tail(writingQueue)
           /\ written' = Append(written, [req |-> Head(writingQueue).req,
                                          buffer |-> Head(writingQueue).buffer])]_vars

\* what does hold: requests are written in the order of their calls, and a
\* request left in the queue of an idle bus is written by the next call
DispatchAtNextCall ==
    [][/\ \A i, j \in 1..Len(written') : i < j => written'[i].req < written'[j].req
       /\ (/\ last'.action = "Invoke"
           /\ currentExpectation = Undefined
           /\ writingQueue # <<>>) =>
              /\ currentExpectation'.req = Head(writingQueue).req
              /\ Len(written') = Len(written) + 1]_vars

\* C25 Checksum fault (browser build): when read() cuts a complete frame
\* whose trailer differs from its CRC while a request is pending, that
\* request is rejected with 'CRC error', once, its timer is cancelled, no
\* expectation is current for the rest of the call, and exactly the length
\* the frame declares is taken off the buffer before parsing goes on.
BrowserChecksumFault ==
    [][last'.action = "Read" =>
          LET input == readingBuffer \o last'.chunk
              events == last'.events
          IN  \A i \in 1..Len(events) :
                LET k == events[i].req
                    bad == sliceFrom(input, ConsumedBefore(events, i))
                IN  /\ (events[i].outcome = "CRC error") <=> ~ValidFrameAt(bad)
                    /\ (events[i].outcome = "CRC error" /\ k # 0) =>
                          /\ promise[k].state = "pending"
                          /\ promise'[k].state = "rejected"
                          /\ promise'[k].value.error = "CRC error"
                          /\ settleCalls'[k] = 1
                          /\ ~hasTimeout(expectationTimeout', k)
                          /\ events[i].frame.length = DeclaredLength(bad)
                          /\ \A j \in (i + 1)..Len(events) : events[j].req = 0
                          /\ currentExpectation' = Undefined
                          /\ Len(readingBuffer') =
                                Len(bad) - ConsumedBefore(events, Len(events) + 1)
                                + ConsumedBefore(events, i)]_vars

\* C25 witness: a faulty coil response arrived for the pending request with
\* a valid one behind it; the request was rejected and the second frame
\* parsed in the same call.
BrowserChecksumFaultWitness ==
    /\ last.action = "Read"
    /\ last.chunk = badCrc \o coilsResponse
    /\ Len(last.events) = 2
    /\ last.events[1].outcome = "CRC error"
    /\ last.events[1].req = 1
    /\ last.events[2].outcome = "ignored"
    /\ promise[1].state = "rejected"
    /\ promise[1].value.error = "CRC error"
    /\ expectationTimeout = <<>>
    /\ readingBuffer = <<>>

\* C26 No contamination across requests (browser build): no byte passed to
\* read() before a request was written, an incomplete fragment left in the
\* buffer included, is part of the frame that resolves or rejects that
\* request.
NoContamination ==
    [][last'.action = "Read" =>
          \A i \in 1..Len(last'.events) :
             last'.events[i].req # 0 =>
                ConsumedBefore(last'.events, i) >= staleBytes]_vars

\* the outcomes of a turn of either read() loop after which the loop goes on
Progress ==
    {"resolve", "reject", "CRCError", "CRC error", "Unexpected response", "ignored"}

\* C30 Reassembly loop termination (both builds): every turn of the loop of
\* read() either stops the loop or takes a frame of at least 5 bytes off
\* the buffer, so that read() returns after at most floor(n / 5) + 1 turns
\* on a buffer of n bytes.
LoopTermination ==
    [][last'.action = "Read" =>
          LET input == readingBuffer \o last'.chunk
              events == last'.events
              progress == {i \in 1..Len(events) : events[i].outcome \in Progress}
              turns == Cardinality(progress) + 1
          IN  /\ \A i \in 1..Len(events) : i \notin progress => i = Len(events)
              /\ \A i \in progress : events[i].frame.length >= 5
              /\ Len(readingBuffer') = Len(input) - ConsumedBefore(events, turns)
              /\ turns <= (Len(input) \div 5) + 1]_vars

\* C30 witness: the Node build went through a delivery of three faulty
\* five-byte frames in four turns, the last of which found the buffer empty.
LoopTerminationWitness ==
    /\ scenario.build = "node"
    /\ last.action = "Read"
    /\ last.chunk = badShort \o badShort \o badShort
    /\ last.carried = 0
    /\ Len(last.events) = 3
    /\ \A i \in 1..3 : last.events[i].outcome = "CRCError"
    /\ readingBuffer = <<>>

\* C31 Timeout leaves the buffer alone: a sweep that finds the deadline of
\* the pending request expired clears the current expectation, removes the
\* entry from the timeout table and rejects that request's promise, and
\* changes nothing else; the reassembly buffer is the same byte for byte
\* after it, and is emptied by the next dispatch, not earlier.
TimeoutKeepsBuffer ==
    [][/\ (last'.action = "Sweep" /\ last'.events # <<>>) =>
             LET k == last'.events[1].req
             IN  /\ readingBuffer' = readingBuffer
                 /\ currentExpectation.req = k
                 /\ currentExpectation' = Undefined
                 /\ hasTimeout(expectationTimeout, k)
                 /\ ~hasTimeout(expectationTimeout', k)
                 /\ promise[k].state = "pending"
                 /\ promise'[k].state = "rejected"
                 /\ \A j \in 1..Len(promise) : j # k => promise'[j] = promise[j]
                 /\ UNCHANGED <<invoked, dispatched, written>>
       /\ last'.action \notin {"Read", "Dispatch"} => readingBuffer' = readingBuffer
       /\ last'.action = "Dispatch" => readingBuffer' = <<>>]_vars

\* C31 witness: the request timed out while three bytes of a response were
\* buffered, and they are still there.
TimeoutKeepsBufferWitness ==
    /\ last.action = "Sweep"
    /\ Len(last.events) = 1
    /\ last.events[1].outcome = "timeout"
    /\ promise[last.events[1].req].state = "rejected"
    /\ readingBuffer = sliceTo(coilsResponse, 3)

\* frame has the address, code and length request k expects
AnswersRequest(frame, k) ==
    /\ frame.address = invoked[k].expectation.address
    /\ frame.code = invoked[k].expectation.code
    /\ frame.length = invoked[k].expectation.length

\* the requests that ended by their deadline
EndedByDeadline == {k \in 1..Len(invoked) : promise[k] = [state |-> "rejected",
                                                   value |-> TimeoutError(k)]}

\* C32 Residual late-response race: a CRC-valid response to a request k
\* that timed out settles a later request j only when read() receives its
\* bytes after j was written; then it resolves j with the data of the
\* frame if it has j's address, code and length, and rejects j with
\* UNEXPECTED_RESPONSE otherwise; read while no request is pending, it
\* settles nothing.
LateResponse ==
    [][last'.action = "Read" =>
          \A i \in 1..Len(last'.events) :
             LET e == last'.events[i]
             IN  (/\ e.outcome \in {"resolve", "reject", "TypeError"}
                  /\ \E k \in EndedByDeadline : AnswersRequest(e.frame, k)) =>
                    IF e.req = 0
                    THEN /\ e.outcome = "TypeError"
                         /\ i = 1 => promise' = promise
                    ELSE /\ e.req \in dispatched
                         /\ \A k \in EndedByDeadline : k < e.req
                         /\ ConsumedBefore(last'.events, i) >= staleBytes
                         /\ promise[e.req].state = "pending"
                         /\ IF AnswersRequest(e.frame, e.req)
                            THEN promise'[e.req] =
                                    [state |-> "fulfilled",
                                     value |-> parseResult(e.frame).result]
                            ELSE promise'[e.req] =
                                    [state |-> "rejected",
                                     value |-> Error("UNEXPECTED_RESPONSE", <<>>)]]_vars

\* C32 witness: the first read of coils timed out, the same read was
\* invoked again and written, and the coil response that came then
\* resolved the second request.
LateResponseWitness ==
    /\ last.action = "Read"
    /\ Len(invoked) >= 2
    /\ 1 \in EndedByDeadline
    /\ invoked[2].operation = invoked[1].operation
    /\ last.events[1].req = 2
    /\ last.events[1].outcome = "resolve"
    /\ AnswersRequest(last.events[1].frame, 1)
    /\ promise[2].state = "fulfilled"

\* the function code of each operation
CodeOf(name) ==
    CASE name = "readCoilStatus" -> 1 [] name = "readInputStatus" -> 2
      [] name = "readHoldingRegisters" -> 3 [] name = "readInputRegisters" -> 4
      [] name = "writeCoil" -> 5 [] name = "writeRegister" -> 6
      [] name = "writeCoils" -> 15 [] name = "writeRegisters" -> 16

\* the least number of bytes that hold n bits
CeilOver8(n) == CHOOSE m \in 0..n : 8 * m >= n /\ 8 * (m - 1) < n

\* C33 Expected response length: the expectation armed for a request has
\* the request's unit address and function code, and the length
\* 3 + ceil(n / 8) + 2 for a read of n coils or inputs, 3 + 2n + 2 for a
\* read of n registers and 8 for every write; the well-formed response of
\* the device to the pending request therefore passes the matcher and
\* resolves it.
ExpectedLength ==
    /\ currentExpectation # Undefined =>
          LET o == invoked[currentExpectation.req].operation
          IN  /\ currentExpectation.address = o.address
              /\ currentExpectation.code = CodeOf(o.op)
              /\ currentExpectation.length =
                    IF CodeOf(o.op) \in {1, 2} THEN 3 + CeilOver8(o.arg) + 2
                    ELSE IF CodeOf(o.op) \in {3, 4} THEN 3 + 2 * o.arg + 2
                    ELSE 8
    /\ (/\ last.action = "Read"
        /\ last.before # 0
        /\ last.carried = 0
        /\ last.chunk = DeviceResponse(invoked[last.before].operation)) =>
           /\ Len(last.events) = 1
           /\ last.events[1].outcome = "resolve"
           /\ last.events[1].frame.length = Len(last.chunk)
           /\ promise[last.before].state = "fulfilled"

\* C33 witness: a read of 16 inputs was resolved by a response with two
\* payload bytes, seven bytes in all.
ExpectedLengthWitness ==
    /\ last.action = "Read"
    /\ last.before = 1
    /\ invoked[1].operation = readInputStatus(2, 19, 16)
    /\ Len(last.chunk) = 7
    /\ last.events[1].outcome = "resolve"
    /\ promise[1].state = "fulfilled"

\* C34 Deadline starts at dispatch: the deadline of a request is computed
\* and armed when the request is written, not when the operation is
\* invoked: only written requests have an entry in the timeout table or
\* end by EXPECT_TIMEOUT, the entry armed at dispatch carries the whole
\* timeout however long the request waited, and a request the sweep
\* rejects has been in flight for at least its timeout.
DeadlineAtDispatch ==
    /\ \A i \in 1..Len(expectationTimeout) :
          expectationTimeout[i].timeoutId \in dispatched
    /\ \A k \in 1..Len(invoked) : TimedOut(k) => k \in dispatched
    /\ last.action = "Dispatch" =>
          ArmedDuration(last.req) = timeout(timeoutOption, invoked[last.req].expectation)
    /\ (last.action = "Sweep" /\ last.events # <<>>) =>
          elapsed >= timeout(timeoutOption, invoked[last.events[1].req].expectation)

\* C34 witness: the second request waited while the first one ran into its
\* timeout, was then written, and got its whole timeout before the sweep
\* rejected it too.
DeadlineAtDispatchWitness ==
    /\ last.action = "Sweep"
    /\ Len(last.events) = 1
    /\ last.events[1].req = 2
    /\ TimedOut(1)
    /\ TimedOut(2)
    /\ elapsed >= Ms(250)

\* C35 Deadline/expectation coupling: the timeout table holds an entry of
\* the bus exactly while the bus has a pending expectation, and that entry
\* is the one the expectation names as its timeout; hence the callback of a
\* sweep never runs without a pending expectation, and the request it
\* rejects is the one that armed it.
DeadlineCoupling ==
    /\ (currentExpectation = Undefined) <=> (expectationTimeout = <<>>)
    /\ currentExpectation # Undefined =>
          /\ Len(expectationTimeout) = 1
          /\ expectationTimeout[1].timeoutId = currentExpectation.timeout
          /\ expectationTimeout[1].callback = currentExpectation.req
          /\ promise[currentExpectation.req].state = "pending"
    /\ ~uncaught
    /\ (last.action = "Sweep" /\ last.events # <<>>) =>
          /\ Len(last.events) = 1
          /\ last.events[1].req = last.before
          /\ TimedOut(last.before)

\* C35 witness: the sweep found the deadline of request 2 expired while
\* request 2 was pending, and rejected request 2; request 3 is waiting.
DeadlineCouplingWitness ==
    /\ last.action = "Sweep"
    /\ last.before = 2
    /\ last.events # <<>>
    /\ last.events[1].req = 2
    /\ promise[1].state = "fulfilled"
    /\ Len(invoked) = 3
    /\ promise[3].state = "pending"
    /\ expectationTimeout = <<>>

\* C36 read() never faults: whatever the correlator state and the chunk, no
\* exception leaves read() (the catch of the loop ends the delivery on every
\* exception that is no checksum fault, the TypeError of rejectExpectation on
\* a bus without expectation included), read() stores the unconsumed rest,
\* a delivery that starts without pending expectation settles no promise and
\* changes neither the expectation nor the timeout table, and a delivery
\* that starts with one touches the pending request's promise only, at most
\* once, every later frame of the same delivery settling nothing.
ReadNeverFaults ==
    [][last'.action = "Read" =>
          /\ uncaught' = uncaught
          /\ \E n \in 0..Len(concat(readingBuffer, last'.chunk)) :
                 readingBuffer' = sliceFrom(concat(readingBuffer, last'.chunk), n)
          /\ \A k \in 1..Len(promise) :
                 k # currentExpectation.req => promise'[k] = promise[k]
          /\ Len(settleCalls') <= Len(settleCalls) + 1
          /\ currentExpectation = Undefined =>
                 /\ promise' = promise
                 /\ settleCalls' = settleCalls
                 /\ currentExpectation' = Undefined
                 /\ expectationTimeout' = expectationTimeout
          /\ \A i \in 1..Len(last'.events) :
                 /\ last'.events[i].outcome \in {"TypeError", "RangeError"}
                       => i = Len(last'.events)
                 /\ last'.events[i].outcome = "TypeError"
                       => last'.events[i].req = 0
                 /\ last'.events[i].outcome \in {"resolve", "reject"}
                       => /\ currentExpectation # Undefined
                          /\ last'.events[i].req = currentExpectation.req
                          /\ \A j \in 1..(i - 1) :
                                 last'.events[j].outcome = "CRCError"]_vars

\* a delivery held the pending request's answer and one more valid frame:
\* the first settled the request, the second met a bus without expectation
ReadNeverFaultsWitness ==
    /\ last.action = "Read"
    /\ last.chunk = coilsResponse \o coilEcho
    /\ last.before = 1
    /\ Len(last.events) = 2
    /\ last.events[1].outcome = "resolve"
    /\ last.events[2].outcome = "TypeError"
    /\ promise[1].state = "fulfilled"
    /\ readingBuffer = coilEcho
    /\ ~uncaught

\* C37 Short non-read frames stall: a delivery that leaves 2 to 7 bytes
\* buffered whose function code is outside 1..4 extracts no frame, settles
\* nothing and keeps every byte; and a pending request whose only bytes since
\* its dispatch are one 5-byte exception response (function code with bit
\* 0x80) is, as long as nothing else is delivered, settled by the sweep alone,
\* with EXPECT_TIMEOUT.
ShortFramesStall ==
    [][/\ (/\ last'.action = "Read"
           /\ Len(concat(readingBuffer, last'.chunk)) \in 2..7
           /\ getUint8(concat(readingBuffer, last'.chunk), 1) \notin 1..4)
          => /\ last'.events = <<>>
             /\ readingBuffer' = concat(readingBuffer, last'.chunk)
             /\ promise' = promise
             /\ settleCalls' = settleCalls
             /\ currentExpectation' = currentExpectation
             /\ expectationTimeout' = expectationTimeout
       /\ (/\ currentExpectation # Undefined
           /\ staleBytes = 0
           /\ Len(readingBuffer) = 5
           /\ getUint8(readingBuffer, 1) >= 128
           /\ last'.action # "Read"
           /\ promise'[currentExpectation.req] # promise[currentExpectation.req])
          => /\ last'.action = "Sweep"
             /\ promise'[currentExpectation.req] =
                   [state |-> "rejected",
                    value |-> TimeoutError(currentExpectation.req)]
             /\ readingBuffer' = readingBuffer]_vars

\* the exception response to the pending read was delivered alone, and the
\* sweep rejected the request with EXPECT_TIMEOUT
ShortFramesStallWitness ==
    /\ last.action = "Sweep"
    /\ last.before = 1
    /\ invoked[1].operation = readCoilStatus(1, 0, 16)
    /\ readingBuffer = exceptionResponse(1, 1, 2)
    /\ TimedOut(1)

\* the payload byte the device puts into every byte of a read response
PayloadByte == getUint8(DeviceResponse(readCoilStatus(1, 0, 1)), 3)

\* C38 Coil result length: the value of a resolved readCoilStatus or
\* readInputStatus for n coils is a states array of 8 * ceil(n / 8)
\* booleans, eight per payload byte of the response, least significant bit
\* first; it is longer than n unless n is a multiple of 8, and the entries
\* from index n on are the remaining bits of the last payload byte.
CoilResultLength ==
    \A k \in 1..Len(promise) :
        (/\ promise[k].state = "fulfilled"
         /\ invoked[k].operation.op \in {"readCoilStatus", "readInputStatus"}) =>
            LET n == invoked[k].operation.arg
                states == promise[k].value.states
            IN  /\ Len(states) = 8 * CeilOver8(n)
                /\ Len(states) >= n
                /\ (Len(states) = n) <=> ((n % 8) = 0)
                /\ \A i \in 0..(Len(states) - 1) :
                       states[i + 1] = (((PayloadByte \div (2 ^ (i % 8))) % 2) = 1)

\* a read of 9 coils was resolved with 16 states, and a padding bit of the
\* second payload byte is set
CoilResultLengthWitness ==
    /\ Len(promise) >= 1
    /\ promise[1].state = "fulfilled"
    /\ invoked[1].operation = readCoilStatus(1, 0, 9)
    /\ Len(promise[1].value.states) = 16
    /\ promise[1].value.states[9]
    /\ promise[1].value.states[11]
====
